---- MODULE Spec2Model ----
(***************************************************************************)
(* Verification model of typeorm-query-analyzer: the slow-query logger     *)
(* (QueryAnalyzerLogger), its configuration (QueryAnalyzerConfig) and the  *)
(* webhook senders (WebhookSender, QueuedWebhookSender, MockWebhookSender).*)
(*                                                                         *)
(* Spec  : one logger, driven by the host ORM calling logQuerySlow.        *)
(* SpecQ : one QueuedWebhookSender, driven by callers of send(payload).    *)
(* SpecW : one WebhookSender, driven by callers of send(payload).          *)
(* SpecP : one ExecutionPlanService, driven by callers of                  *)
(*         captureExecutionPlan and cleanup.                               *)
(* SpecC : the construction of a QueryAnalyzerConfig from the environment   *)
(*         and of a QueryAnalyzerLogger from its constructor argument.     *)
(* SpecD : captureExecutionPlan on every dialect, the mssql path included. *)
(* SpecS : captureStackTrace applied to the stack of a new Error.          *)
(* SpecA : Spec's logger started with NODE_ENV and APP_ENV both drawn.     *)
(* SpecE : the enrichment functions of createReportPayload (truncateQuery, *)
(*         sanitizeParameters) applied to a query and its parameters.      *)
(***************************************************************************)
EXTENDS Integers, Sequences, FiniteSets, TLC

\* ------------------------------------------------------------------ bounds
MaxEvents == 2
MaxCalls == 3
MaxTime == 4
MaxSends == 2
MaxCaptures == 2
MaxCleanups == 2
MaxQueryLen == 3
MaxParams == 2
MaxFrames == 3

Events == 1..MaxEvents
Calls == 1..MaxCalls
WCalls == 1..MaxSends
Captures == 1..MaxCaptures
Cleanups == 1..MaxCleanups

\* ------------------------------------------------- configuration (inputs)
\* The NODE_ENV values the model draws from; "absent" is an unset variable.
NodeEnvs == {"development", "production", "test", "absent"}

\* A configuration that passes validate().
ValidFields ==
  [apiEndpoint |-> "https://e", apiKey |-> "k", projectId |-> "p",
   thresholdMs |-> 2, maxStack |-> 1, maxQuery |-> 1, timeoutMs |-> 1]

\* ValidFields, and the same with one field breaking a validate() check.
FieldSets ==
  { ValidFields,
    [ValidFields EXCEPT !.apiEndpoint = ""],
    [ValidFields EXCEPT !.apiKey = ""],
    [ValidFields EXCEPT !.projectId = ""],
    [ValidFields EXCEPT !.thresholdMs = 0],
    [ValidFields EXCEPT !.maxStack = 0],
    [ValidFields EXCEPT !.maxQuery = 0],
    [ValidFields EXCEPT !.timeoutMs = 0] }

\* IQueryAnalyzerConfig: the fields the logger reads.
Configs ==
  { [apiEndpoint |-> f.apiEndpoint, apiKey |-> f.apiKey,
     projectId |-> f.projectId, thresholdMs |-> f.thresholdMs,
     maxStack |-> f.maxStack, maxQuery |-> f.maxQuery,
     timeoutMs |-> f.timeoutMs, enableDev |-> d, enableProd |-> p,
     captureStack |-> s, executionPlanEnabled |-> x] :
       f \in FieldSets, d \in BOOLEAN, p \in BOOLEAN,
       s \in BOOLEAN, x \in BOOLEAN }

\* QueryAnalyzerLoggerOptions.webhookSender: absent, a MockWebhookSender the
\* caller built with a configuration, or another IWebhookSender implementation
\* (whose send may resolve, reject or throw).
OptionSenders == {"none", "mock", "custom"}

\* QueryAnalyzerLoggerOptions.dataSourceOptions: absent, or its type field.
OptionDataSources == {"none", "postgres", "mongodb"}

\* The durations logQuerySlow is called with: below and at thresholdMs = 2.
Times == {1, 2}

VARIABLES
  config,               \* this.config
  nodeEnv,              \* process.env.NODE_ENV
  options,              \* the constructor's options argument
  ctor,                 \* "pending" | "ok" | "threw": outcome of the constructor
  webhookSender,        \* which sender this.webhookSender is
  executionPlanService, \* "null" or the dialect of the service's data source
  ev,                   \* per logQuerySlow call: the handler's state
  microtasks,           \* FIFO of promise continuations ready to run
  uuidCounter,          \* number of identifiers uuidV4 has handed out
  calls,                \* per QueuedWebhookSender.send call: its state
  pq,                   \* the PQueue of the QueuedWebhookSender
  now,                  \* Date.now(), in ms (positive: PQueue starts with
                        \* intervalEnd = 0, a time already past)
  wsend,                \* per WebhookSender.send call: its state
  analysisDataSource,   \* this.analysisDataSource: 0 is null, otherwise the
                        \* index in dataSources of the DataSource it refers to
  dataSources,          \* the DataSource objects created so far, in order
  caps,                 \* per captureExecutionPlan call: its state
  cleanups,             \* per cleanup call: its state
  query,                \* createReportPayload's query argument (characters)
  parameters,           \* createReportPayload's parameters argument
  enriched,             \* createReportPayload's truncatedQuery and
                        \* safeParameters, once computed
  processEnv,           \* process.env: the QUERY_ANALYZER_* variables
  ctorArg,              \* the argument `new QueryAnalyzerLogger(...)` is given
  validation,           \* "pending", or what this.config.validate() did in
                        \* the constructor: "ok" or the message it threw
  appEnv,               \* process.env.APP_ENV
  errorStack,           \* new Error().stack inside captureStackTrace
  stackTrace            \* createReportPayload's stackTrace, once computed

loggerVars == <<nodeEnv, options, ctor, webhookSender, executionPlanService,
                ev, microtasks, uuidCounter>>

queueVars == <<calls, pq, now>>

planVars == <<analysisDataSource, dataSources, caps, cleanups>>

enrichVars == <<query, parameters, enriched, errorStack, stackTrace>>

configVars == <<processEnv, ctorArg, validation, appEnv>>

unitVars == <<wsend, planVars, enrichVars, configVars>>

vars == <<config, loggerVars, queueVars, unitVars>>

\* A send call the caller has not made yet.  promise is the state of the
\* promise send(payload) returned ("none" before the call).
NewCall ==
  [pc |-> "new", route |-> "none", posts |-> 0, start |-> -1, period |-> -1,
   http |-> "none", log |-> {}, promise |-> "none"]

\* new PQueue(queueOptions): nothing queued, nothing running, no interval
\* timer (intervalId, timeoutId: -1 is undefined, otherwise the time at
\* which the timer fires next).  period counts the resets of intervalCount.
NewPQueue ==
  [queue |-> <<>>, pendingCount |-> 0, intervalCount |-> 0, intervalEnd |-> 0,
   intervalId |-> -1, timeoutId |-> -1, period |-> 0]

\* ---------------------------------------------------- QueryAnalyzerConfig
\* Variant of isEnabled: either flag enables reporting in any environment.
isEnabledEitherFlag(c, env) ==
  c.enableDev \/ c.enableProd

isEnabled(c, env) ==
  LET isDevelopment == env = "development"
      isProduction  == env = "production"
  IN  IF isDevelopment /\ c.enableDev THEN TRUE
      ELSE IF isProduction /\ c.enableProd THEN TRUE
      ELSE IF ~isDevelopment /\ ~isProduction /\ c.enableDev THEN TRUE
      ELSE FALSE

\* The number value NaN, which parseInt returns for a string that does not
\* start with a number.  It is kept apart from every number a field can hold.
NaN == -999999

\* x <= y on JavaScript numbers: false as soon as one side is NaN.
jsLessEq(x, y) == x # NaN /\ y # NaN /\ x <= y

\* validate(): "ok", or the message of the first check that throws.
validate(c) ==
  IF c.apiEndpoint = "" THEN "QUERY_ANALYZER_API_ENDPOINT is required"
  ELSE IF c.apiKey = "" THEN "QUERY_ANALYZER_API_KEY is required"
  ELSE IF c.projectId = "" THEN "QUERY_ANALYZER_PROJECT_ID is required"
  ELSE IF jsLessEq(c.thresholdMs, 0)
    THEN "QUERY_ANALYZER_THRESHOLD_MS must be greater than 0"
  ELSE IF jsLessEq(c.maxStack, 0)
    THEN "QUERY_ANALYZER_MAX_STACK must be greater than 0"
  ELSE IF jsLessEq(c.maxQuery, 0)
    THEN "QUERY_ANALYZER_MAX_QUERY must be greater than 0"
  ELSE IF jsLessEq(c.timeoutMs, 0)
    THEN "QUERY_ANALYZER_TIMEOUT_MS must be greater than 0"
  ELSE "ok"

\* The environment variables the constructor reads.  An unset variable and an
\* empty one are both "": `process.env.X || d` and `=== "true"` do not tell
\* them apart.
RequiredEnvNames ==
  {"QUERY_ANALYZER_API_ENDPOINT", "QUERY_ANALYZER_API_KEY",
   "QUERY_ANALYZER_PROJECT_ID"}

NumericEnvNames ==
  {"QUERY_ANALYZER_THRESHOLD_MS", "QUERY_ANALYZER_MAX_STACK",
   "QUERY_ANALYZER_MAX_QUERY", "QUERY_ANALYZER_TIMEOUT_MS",
   "QUERY_ANALYZER_QUEUE_CONCURRENCY", "QUERY_ANALYZER_QUEUE_INTERVAL_CAP",
   "QUERY_ANALYZER_QUEUE_INTERVAL_IN_MS"}

FlagEnvNames ==
  {"QUERY_ANALYZER_CAPTURE_STACK", "QUERY_ANALYZER_ENABLE_DEV",
   "QUERY_ANALYZER_ENABLE_PROD", "QUERY_ANALYZER_EXECUTION_PLAN_ENABLED"}

EnvNames == RequiredEnvNames \cup NumericEnvNames \cup FlagEnvNames

\* No QUERY_ANALYZER_* variable is set.
NoEnv == [n \in EnvNames |-> ""]

\* A deployment's environment: endpoint, key and project set, reporting
\* enabled in development, every number left to its default.
BaseEnv ==
  [n \in EnvNames |->
     IF n = "QUERY_ANALYZER_API_ENDPOINT" THEN "https://endpoint"
     ELSE IF n = "QUERY_ANALYZER_API_KEY" THEN "key"
     ELSE IF n = "QUERY_ANALYZER_PROJECT_ID" THEN "project"
     ELSE IF n = "QUERY_ANALYZER_ENABLE_DEV" THEN "true"
     ELSE ""]

\* What a numeric variable is set to: unset, not a number, zero, negative,
\* positive.
NumericEnvValues == {"", "abc", "0", "-1", "2"}

\* The environments: BaseEnv with at most one variable changed.
Envs ==
  {BaseEnv}
    \cup {[BaseEnv EXCEPT ![n] = ""] : n \in RequiredEnvNames}
    \cup {[BaseEnv EXCEPT ![n] = v] :
             n \in NumericEnvNames, v \in NumericEnvValues}

\* parseInt(s, 10) on the strings that occur: the values of NumericEnvValues
\* and the constructor's default strings.
parseInt(s) ==
  CASE s = "0" -> 0
    [] s = "-1" -> -1
    [] s = "1" -> 1
    [] s = "2" -> 2
    [] s = "3" -> 3
    [] s = "15" -> 15
    [] s = "1000" -> 1000
    [] s = "5000" -> 5000
    [] s = "10000" -> 10000
    [] OTHER -> NaN

\* `s || d` on strings: d when s is empty or undefined.
orDefault(s, d) == IF s = "" THEN d ELSE s

\* `partialConfig?.f ?? d`: partialConfig is a record holding the fields the
\* caller gave (<<>> when there is no argument).
orEnv(partialConfig, f, d) ==
  IF f \in DOMAIN partialConfig THEN partialConfig[f] ELSE d

\* new QueryAnalyzerConfig(partialConfig) in environment e.
QueryAnalyzerConfigNew(partialConfig, e) ==
  [thresholdMs |->
     orEnv(partialConfig, "thresholdMs",
           parseInt(orDefault(e["QUERY_ANALYZER_THRESHOLD_MS"], "1000"))),
   apiEndpoint |->
     orEnv(partialConfig, "apiEndpoint",
           orDefault(e["QUERY_ANALYZER_API_ENDPOINT"], "")),
   apiKey |->
     orEnv(partialConfig, "apiKey",
           orDefault(e["QUERY_ANALYZER_API_KEY"], "")),
   captureStack |->
     orEnv(partialConfig, "captureStack",
           e["QUERY_ANALYZER_CAPTURE_STACK"] = "true"),
   maxStack |->
     orEnv(partialConfig, "maxStack",
           parseInt(orDefault(e["QUERY_ANALYZER_MAX_STACK"], "15"))),
   maxQuery |->
     orEnv(partialConfig, "maxQuery",
           parseInt(orDefault(e["QUERY_ANALYZER_MAX_QUERY"], "5000"))),
   timeoutMs |->
     orEnv(partialConfig, "timeoutMs",
           parseInt(orDefault(e["QUERY_ANALYZER_TIMEOUT_MS"], "10000"))),
   enableDev |->
     orEnv(partialConfig, "enableDev",
           e["QUERY_ANALYZER_ENABLE_DEV"] = "true"),
   enableProd |->
     orEnv(partialConfig, "enableProd",
           e["QUERY_ANALYZER_ENABLE_PROD"] = "true"),
   executionPlanEnabled |->
     orEnv(partialConfig, "executionPlanEnabled",
           e["QUERY_ANALYZER_EXECUTION_PLAN_ENABLED"] = "true"),
   projectId |->
     orEnv(partialConfig, "projectId",
           orDefault(e["QUERY_ANALYZER_PROJECT_ID"], "")),
   queueConcurrency |->
     orEnv(partialConfig, "queueConcurrency",
           parseInt(orDefault(e["QUERY_ANALYZER_QUEUE_CONCURRENCY"], "3"))),
   queueIntervalCap |->
     orEnv(partialConfig, "queueIntervalCap",
           parseInt(orDefault(e["QUERY_ANALYZER_QUEUE_INTERVAL_CAP"], "1"))),
   queueIntervalInMs |->
     orEnv(partialConfig, "queueIntervalInMs",
           parseInt(orDefault(e["QUERY_ANALYZER_QUEUE_INTERVAL_IN_MS"],
                              "1000")))]

\* The objects a caller passes to new QueryAnalyzerConfig: nothing, the
\* README's custom configuration, and overrides of the queue settings.
PartialConfigs ==
  {<<>>,
   [thresholdMs |-> 2000, apiEndpoint |-> "https://custom-endpoint",
    apiKey |-> "custom-key", enableDev |-> TRUE, captureStack |-> TRUE],
   [queueConcurrency |-> 0],
   [queueIntervalInMs |-> -1]}

\* A field slot that holds no QueryAnalyzerConfig.
NoConfig == QueryAnalyzerConfigNew(<<>>, NoEnv)

\* new QueryAnalyzerLogger() called without an argument.  kind tells what the
\* argument is: "absent", an "options" object (hasConfig: it has a config
\* property, value), or a QueryAnalyzerConfig "instance" (value).
NoArgument == [kind |-> "absent", hasConfig |-> FALSE, value |-> NoConfig]

\* The arguments new QueryAnalyzerLogger is called with in environment e.
ConstructorArguments(e) ==
  {NoArgument, [kind |-> "options", hasConfig |-> FALSE, value |-> NoConfig]}
    \cup {[kind |-> k, hasConfig |-> TRUE,
           value |-> QueryAnalyzerConfigNew(p, e)] :
             k \in {"options", "instance"}, p \in PartialConfigs}

\* The constructor's `options.config || new QueryAnalyzerConfig()`.  A
\* QueryAnalyzerConfig has no property named config, so passed as the
\* options argument it yields undefined there.
optionsConfigOr(arg, e) ==
  IF arg.kind = "options" /\ arg.hasConfig THEN arg.value
  ELSE QueryAnalyzerConfigNew(<<>>, e)

\* ------------------------------------------------------- MockWebhookSender
\* new MockWebhookSender(...args): the constructor reads
\* config.queueConcurrency, a TypeError when no argument was passed.
MockWebhookSenderNew(args) ==
  IF Len(args) = 0 THEN "TypeError" ELSE "ok"

\* ----------------------------------------------------- ExecutionPlanService
\* Variant of isSqlDatabase: every dialect is taken for a SQL dialect.
isSqlDatabaseAny(dbType) == TRUE

\* isSqlDatabase(dbType): is the dialect in the list of SQL dialects?
isSqlDatabase(dbType) ==
  dbType \in {"mysql", "postgres", "mariadb", "sqlite", "mssql", "oracle"}

\* getPlanFormat(dbType): contentType, fileExtension, description.
getPlanFormat(dbType) ==
  IF dbType \in {"mysql", "mariadb", "postgres"}
    THEN [contentType |-> "application/json", fileExtension |-> ".json",
          description |-> "JSON"]
  ELSE IF dbType = "mssql"
    THEN [contentType |-> "application/xml", fileExtension |-> ".xml",
          description |-> "XML"]
  ELSE [contentType |-> "text/plain", fileExtension |-> ".txt",
        description |-> "TEXT"]

\* No payload built yet (also: an executionPlan field left null).
NoExecutionPlan ==
  [databaseProvider |-> "none", contentType |-> "none",
   fileExtension |-> "none", description |-> "none", content |-> "none"]

\* The ExecutionPlanResult captureExecutionPlan returns for a dialect;
\* "explain" stands for the formatted output of the plan command.
ExecutionPlanResult(dbType) ==
  [databaseProvider |-> dbType,
   contentType |-> getPlanFormat(dbType).contentType,
   fileExtension |-> getPlanFormat(dbType).fileExtension,
   description |-> getPlanFormat(dbType).description,
   content |-> "explain"]

\* ----------------------------------------------------------- WebhookSender
\* How the HTTP POST of WebhookSender.send can end: a response below 400, or
\* any failure (status >= 400, timeout, no response, another exception).
HttpOutcomes == {"ok", "failed"}

\* WebhookSender.send after the POST settled: whether it logs an error.
\* Every branch ends the call normally (the promise resolves).
webhookSendLogs(outcome) ==
  IF outcome = "ok" THEN {} ELSE {"webhookError"}

\* A WebhookSender.send call the caller has not made yet.  settle is how
\* httpClient.post settled, log the console.error messages of the call.
NewWSend ==
  [pc |-> "new", posts |-> 0,
   settle |-> [kind |-> "none", status |-> 0, isAxiosError |-> FALSE,
               code |-> "none", request |-> FALSE],
   log |-> {}]

\* new Error().stack when the engine gives none.  lines are the lines of the
\* stack after its first (the message), each named by the kind of frame.
NoStack == [obtainable |-> FALSE, lines |-> <<>>]

\* createReportPayload before its stackTrace is computed.
NotCaptured == [done |-> FALSE, frames |-> <<>>]

\* createReportPayload before truncateQuery and sanitizeParameters ran.
NotEnriched ==
  [done |-> {}, truncatedQuery |-> <<>>, threw |-> FALSE,
   safeParameters |-> <<>>]

\* A captureExecutionPlan call not made yet.  created: the DataSource this
\* call created (0: none); ds: the DataSource getAnalysisDataSource returned
\* to it (0: null); runner: its query runner; showplan: whether SHOWPLAN_XML
\* is on for the runner's session; result: what the call settles with
\* ("result": the object in returned);
\* commands: what queryRunner.query was called with, in order; mssqlQuery:
\* how the query run under SHOWPLAN_XML settled; mssqlError: the command
\* whose error captureExecutionPlanForMssql rejected with; releases: the
\* calls of queryRunner.release() it made.
NewCapture ==
  [pc |-> "new", created |-> 0, ds |-> 0, runner |-> "none",
   showplan |-> "off", result |-> "none", returned |-> NoExecutionPlan,
   log |-> {}, commands |-> <<>>, mssqlQuery |-> "none",
   mssqlError |-> "none", releases |-> 0]

\* A cleanup call not made yet.  target: the DataSource it called destroy on
\* (0: none); duringInit: when it was called while the first initialize() of
\* the service was pending, the number of captureExecutionPlan calls made
\* before it (0: it was not).
NewCleanup ==
  [pc |-> "new", target |-> 0, destroyCalls |-> 0, duringInit |-> 0]

\* ------------------------------------------------------ QueryAnalyzerLogger
NewEvent ==
  [pc |-> "new", time |-> 0, stack |-> "none", plan |-> "none",
   queryId |-> 0, executionPlan |-> NoExecutionPlan, sends |-> 0, posts |-> 0,
   route |-> "none", send |-> "none", atReturn |-> {}, log |-> {},
   escaped |-> "none", sendOrder |-> 0, environment |-> "none"]

Init ==
  /\ config \in Configs
  /\ nodeEnv \in NodeEnvs
  /\ options \in [webhookSender : OptionSenders,
                  dataSourceOptions : OptionDataSources]
  /\ ctor = "pending"
  /\ webhookSender = "unset"
  /\ executionPlanService = "null"
  /\ ev = [e \in Events |-> NewEvent]
  /\ microtasks = <<>>
  /\ uuidCounter = 0
  /\ calls = [c \in Calls |-> NewCall]
  /\ pq = NewPQueue
  /\ now = 1
  /\ wsend = [k \in WCalls |-> NewWSend]
  /\ analysisDataSource = 0
  /\ dataSources = <<>>
  /\ caps = [c \in Captures |-> NewCapture]
  /\ cleanups = [k \in Cleanups |-> NewCleanup]
  /\ query = <<>>
  /\ parameters = [kind |-> "absent", items |-> <<>>]
  /\ enriched = NotEnriched
  /\ processEnv = NoEnv
  /\ ctorArg = NoArgument
  /\ validation = "pending"
  /\ appEnv = "absent"
  /\ errorStack = NoStack
  /\ stackTrace = NotCaptured

\* constructor(options): validate, pick the sender, build the plan service.
Construct ==
  /\ ctor = "pending"
  /\ IF validate(config) = "ok"
       THEN /\ webhookSender' = IF options.webhookSender # "none"
                                  THEN options.webhookSender ELSE "webhook"
            /\ ctor' = "ok"
            /\ executionPlanService' =
                 IF options.dataSourceOptions # "none"
                    /\ config.executionPlanEnabled
                   THEN options.dataSourceOptions ELSE "null"
       ELSE \* catch: this.webhookSender = new MockWebhookSender()
            IF MockWebhookSenderNew(<<>>) = "ok"
              THEN /\ webhookSender' = "mock"
                   /\ ctor' = "ok"
                   /\ executionPlanService' =
                        IF options.dataSourceOptions # "none"
                           /\ config.executionPlanEnabled
                          THEN options.dataSourceOptions ELSE "null"
              ELSE /\ ctor' = "threw"
                   /\ UNCHANGED <<webhookSender, executionPlanService>>
  /\ UNCHANGED <<config, nodeEnv, options, ev, microtasks, uuidCounter>>
  /\ UNCHANGED <<queueVars, unitVars>>

\* Variant of uuidV4: the same identifier on every call.
uuidV4Reused(counter) == 1

\* uuidV4(): a fresh identifier, given how many were handed out before.
uuidV4(counter) == counter + 1

\* Variant of shouldReport: the threshold comparison is missing.
shouldReportAnyDuration(c, env, time) ==
  isEnabled(c, env)

\* logQuerySlow's guard: the early return is taken when this is FALSE.
shouldReport(c, env, time) ==
  ~(~isEnabled(c, env) \/ time < c.thresholdMs)

\* createReportPayload's defaultExecutionPlan.
defaultExecutionPlan ==
  [databaseProvider |-> "unknown", contentType |-> "text/plain",
   fileExtension |-> ".txt", description |-> "TEXT", content |-> ""]

\* Variant of executionPlanField: the field is left as retrieved (null when
\* nothing was retrieved).
executionPlanFieldNoDefault(plan, dbType) ==
  IF plan = "result" THEN ExecutionPlanResult(dbType) ELSE NoExecutionPlan

\* createReportPayload's `executionPlan || defaultExecutionPlan`, from what
\* captureExecutionPlan settled with ("rejected" is caught and leaves null;
\* "none": the service was not called) on a service for dialect dbType.
executionPlanField(plan, dbType) ==
  IF plan = "result" THEN ExecutionPlanResult(dbType)
  ELSE defaultExecutionPlan

\* The APP_ENV values the model draws from; "absent" is an unset variable.
AppEnvs == {"development", "production", "absent"}

\* The payload's environment field,
\* `process.env.NODE_ENV ?? process.env.APP_ENV ?? "unknown"`.
payloadEnvironment(node, app) ==
  IF node # "absent" THEN node
  ELSE IF app # "absent" THEN app
  ELSE "unknown"

\* Variant of handleSlowQuerySync: the payload is built without awaiting and
\* the sender's send is invoked before the first suspension.
handleSlowQuerySendsInline(r, c, svc, id, environment) ==
  [r EXCEPT !.stack = IF c.captureStack THEN "captured" ELSE "empty",
            !.pc = "awaitSend", !.queryId = id,
            !.environment = environment,
            !.executionPlan = executionPlanField("none", svc),
            !.sends = @ + 1, !.send = "pending"]

\* handleSlowQuery, from its call up to its first suspension: it runs
\* createReportPayload, which captures the stack, truncates and sanitizes,
\* and then either calls captureExecutionPlan and awaits it, or (no plan
\* service) builds the payload and returns.  captureExecutionPlan returns
\* null without suspending for a dialect that is not a SQL dialect.
handleSlowQuerySync(r, c, svc, id, environment) ==
  LET r1 == [r EXCEPT !.stack = IF c.captureStack THEN "captured"
                                 ELSE "empty"]
  IN  IF svc # "null"
        THEN [r1 EXCEPT !.pc = "awaitPlan",
                        !.plan = IF isSqlDatabase(svc) THEN "pending"
                                 ELSE "null"]
        ELSE [r1 EXCEPT !.pc = "awaitPayload",
                        !.queryId = id,
                        !.environment = environment,
                        !.executionPlan = executionPlanField("none", svc)]

\* The steps of an event's handling that have completed.
completedSteps(r) ==
  (IF r.stack = "captured" THEN {"stack"} ELSE {})
  \cup (IF r.plan \in {"result", "null", "rejected"} THEN {"plan"} ELSE {})
  \cup (IF r.queryId # 0 THEN {"payload"} ELSE {})
  \cup (IF r.sends > 0 THEN {"send"} ELSE {})
  \cup (IF r.send \in {"resolved", "rejected", "threw"}
          THEN {"delivery"} ELSE {})

\* Variant of awaitReady: the continuation runs before those already ready.
awaitReadyFirst(queue, continuations) == continuations \o queue

\* `await` on a promise that is settled: the continuations go behind those
\* already in the microtask queue.
awaitReady(queue, continuations) == queue \o continuations

\* The continuation a suspended handler left in the microtask queue.
readyContinuation(r, e) ==
  IF r.pc = "awaitPayload" THEN <<<<"handleSlowQuery", e>>>>
  ELSE IF r.pc = "awaitPlan" /\ r.plan # "pending"
    THEN <<<<"createReportPayload", e>>>>
  ELSE <<>>

\* Variant of detectionLog: the line is written after the guard, for the
\* calls that are reported.
detectionLogAfterGuard(c, env, time) ==
  IF ~(~isEnabled(c, env) \/ time < c.thresholdMs) THEN {"detected"} ELSE {}

\* logQuerySlow's first statement, console.warn("Slow query detected: ..."),
\* which comes before the guard reads the configuration.
detectionLog(c, env, time) == {"detected"}

\* logQuerySlow(time, query, parameters): the whole synchronous call.
LogQuerySlow(e, time) ==
  /\ ctor = "ok"
  /\ ev[e].pc = "new"
  /\ \A e2 \in Events : e2 < e => ev[e2].pc # "new"
  /\ LET r0 == [ev[e] EXCEPT !.time = time,
                             !.log = detectionLog(config, nodeEnv, time)]
     IN  IF ~shouldReport(config, nodeEnv, time)
           THEN /\ ev' = [ev EXCEPT ![e] = [r0 EXCEPT !.pc = "ignored"]]
                /\ UNCHANGED <<microtasks, uuidCounter>>
           ELSE LET r1 == handleSlowQuerySync(r0, config,
                            executionPlanService, uuidV4(uuidCounter),
                            payloadEnvironment(nodeEnv, appEnv))
                    r2 == [r1 EXCEPT !.atReturn = completedSteps(r1)]
                IN  /\ ev' = [ev EXCEPT ![e] = r2]
                    /\ microtasks' = awaitReady(microtasks,
                                               readyContinuation(r2, e))
                    /\ uuidCounter' = IF r2.queryId # 0
                                        THEN uuidCounter + 1 ELSE uuidCounter
  /\ UNCHANGED <<config, nodeEnv, options, ctor, webhookSender,
                 executionPlanService>>
  /\ UNCHANGED <<queueVars, unitVars>>

\* How captureExecutionPlan can settle once it has suspended: a result, null
\* (its catch), or a rejection (queryRunner.release() throwing in finally).
PlanOutcomes == {"result", "null", "rejected"}

\* The side connection answers: captureExecutionPlan settles.
PlanSettle(e, outcome) ==
  /\ microtasks = <<>>
  /\ ev[e].pc = "awaitPlan"
  /\ ev[e].plan = "pending"
  /\ ev' = [ev EXCEPT ![e].plan = outcome]
  /\ microtasks' = microtasks \o <<<<"createReportPayload", e>>>>
  /\ UNCHANGED <<config, nodeEnv, options, ctor, webhookSender,
                 executionPlanService, uuidCounter>>
  /\ UNCHANGED <<queueVars, unitVars>>

\* Variant of afterCaptureExecutionPlan: a rejected retrieval is not caught
\* in createReportPayload; it ends handleSlowQuery in its catch block.
afterCaptureUncaught(r, dbType, id, environment) ==
  IF r.plan = "rejected"
    THEN [r EXCEPT !.pc = "done", !.log = @ \cup {"sendError"}]
    ELSE [r EXCEPT !.pc = "awaitPayload", !.queryId = id,
                   !.environment = environment,
                   !.executionPlan = executionPlanField(r.plan, dbType)]

\* createReportPayload after `await captureExecutionPlan(...)` settled: a
\* rejection is caught and logged, and the payload is built.
afterCaptureExecutionPlan(r, dbType, id, environment) ==
  [r EXCEPT !.pc = "awaitPayload",
            !.log = IF r.plan = "rejected" THEN @ \cup {"planWarn"} ELSE @,
            !.queryId = id,
            !.environment = environment,
            !.executionPlan = executionPlanField(r.plan, dbType)]

\* createReportPayload resumes after `await captureExecutionPlan(...)`.
ResumeCreateReportPayload(e) ==
  /\ microtasks # <<>>
  /\ Head(microtasks) = <<"createReportPayload", e>>
  /\ LET r == afterCaptureExecutionPlan(ev[e], executionPlanService,
                                        uuidV4(uuidCounter),
                                        payloadEnvironment(nodeEnv, appEnv))
     IN  /\ ev' = [ev EXCEPT ![e] = r]
         /\ uuidCounter' = IF r.queryId # 0 THEN uuidCounter + 1
                           ELSE uuidCounter
         /\ microtasks' = awaitReady(Tail(microtasks),
                                    readyContinuation(r, e))
  /\ UNCHANGED <<config, nodeEnv, options, ctor, webhookSender,
                 executionPlanService>>
  /\ UNCHANGED <<queueVars, unitVars>>

\* Variant of handleSlowQueryCatch: the error is rethrown.
handleSlowQueryRethrow(err) == "escaped"

\* handleSlowQuery's catch block: what becomes of an error raised in its try.
handleSlowQueryCatch(err) == "logged"

\* The record of an event whose handler ended in its catch block or escaped.
afterError(r, outcome) ==
  IF outcome = "logged"
    THEN [r EXCEPT !.pc = "done", !.log = @ \cup {"sendError"}]
    ELSE [r EXCEPT !.pc = "done", !.escaped = "rejection"]

\* What calling this.webhookSender.send(payload) does before it suspends.
SendStarts(sender) ==
  IF sender = "webhook" THEN {[route |-> "direct", posts |-> 1, send |-> "pending"]}
  ELSE IF sender = "mock" THEN {[route |-> "mock", posts |-> 0, send |-> "pending"]}
  ELSE {[route |-> "custom", posts |-> 0, send |-> "pending"],
        [route |-> "custom", posts |-> 0, send |-> "threw"]}

\* The number of events for which the sender's send has been invoked.
sendsInvoked(events) ==
  Cardinality({e \in DOMAIN events : events[e].sends > 0})

\* handleSlowQuery resumes after `await createReportPayload(...)`: it logs
\* the report and calls this.webhookSender.send(payload); sendOrder is the
\* position of this invocation among the logger's send invocations.
ResumeHandleSlowQuery(e) ==
  /\ microtasks # <<>>
  /\ Head(microtasks) = <<"handleSlowQuery", e>>
  /\ \E s \in SendStarts(webhookSender) :
       LET r == [ev[e] EXCEPT !.log = @ \cup {"reporting"},
                              !.sends = @ + 1,
                              !.sendOrder = sendsInvoked(ev) + 1,
                              !.posts = @ + s.posts,
                              !.route = s.route,
                              !.send = s.send]
       IN  ev' = [ev EXCEPT ![e] =
                    IF s.send = "threw"
                      THEN afterError(r, handleSlowQueryCatch(s.send))
                      ELSE [r EXCEPT !.pc = "awaitSend"]]
  /\ microtasks' = Tail(microtasks)
  /\ UNCHANGED <<config, nodeEnv, options, ctor, webhookSender,
                 executionPlanService, uuidCounter>>
  /\ UNCHANGED <<queueVars, unitVars>>

\* WebhookSender.send: the POST settles, the outcome is logged, the promise
\* resolves.
WebhookSendSettle(e, outcome) ==
  /\ microtasks = <<>>
  /\ webhookSender = "webhook"
  /\ ev[e].pc = "awaitSend"
  /\ ev[e].send = "pending"
  /\ ev' = [ev EXCEPT ![e].send = "resolved",
                      ![e].log = @ \cup webhookSendLogs(outcome)]
  /\ microtasks' = microtasks \o <<<<"handleSlowQueryEnd", e>>>>
  /\ UNCHANGED <<config, nodeEnv, options, ctor, webhookSender,
                 executionPlanService, uuidCounter>>
  /\ UNCHANGED <<queueVars, unitVars>>

\* MockWebhookSender.send: the logging task ran (or queueing failed and the
\* fallback logged); the promise resolves.
MockSendSettle(e) ==
  /\ microtasks = <<>>
  /\ webhookSender = "mock"
  /\ ev[e].pc = "awaitSend"
  /\ ev[e].send = "pending"
  /\ ev' = [ev EXCEPT ![e].send = "resolved"]
  /\ microtasks' = microtasks \o <<<<"handleSlowQueryEnd", e>>>>
  /\ UNCHANGED <<config, nodeEnv, options, ctor, webhookSender,
                 executionPlanService, uuidCounter>>
  /\ UNCHANGED <<queueVars, unitVars>>

\* A caller-supplied IWebhookSender: its promise resolves or rejects.
CustomSendSettle(e, outcome) ==
  /\ microtasks = <<>>
  /\ webhookSender = "custom"
  /\ ev[e].pc = "awaitSend"
  /\ ev[e].send = "pending"
  /\ ev' = [ev EXCEPT ![e].send = outcome]
  /\ microtasks' = microtasks \o <<<<"handleSlowQueryEnd", e>>>>
  /\ UNCHANGED <<config, nodeEnv, options, ctor, webhookSender,
                 executionPlanService, uuidCounter>>
  /\ UNCHANGED <<queueVars, unitVars>>

\* handleSlowQuery resumes after `await this.webhookSender.send(payload)`.
FinishHandleSlowQuery(e) ==
  /\ microtasks # <<>>
  /\ Head(microtasks) = <<"handleSlowQueryEnd", e>>
  /\ ev' = [ev EXCEPT ![e] =
       IF ev[e].send = "rejected"
         THEN afterError(ev[e], handleSlowQueryCatch(ev[e].send))
         ELSE [ev[e] EXCEPT !.pc = "done"]]
  /\ microtasks' = Tail(microtasks)
  /\ UNCHANGED <<config, nodeEnv, options, ctor, webhookSender,
                 executionPlanService, uuidCounter>>
  /\ UNCHANGED <<queueVars, unitVars>>

Next ==
  \/ Construct
  \/ \E e \in Events, t \in Times : LogQuerySlow(e, t)
  \/ \E e \in Events, o \in PlanOutcomes : PlanSettle(e, o)
  \/ \E e \in Events : ResumeCreateReportPayload(e)
  \/ \E e \in Events : ResumeHandleSlowQuery(e)
  \/ \E e \in Events, o \in HttpOutcomes : WebhookSendSettle(e, o)
  \/ \E e \in Events : MockSendSettle(e)
  \/ \E e \in Events, o \in {"resolved", "rejected"} : CustomSendSettle(e, o)
  \/ \E e \in Events : FinishHandleSlowQuery(e)

Spec == Init /\ [][Next]_vars

\* A logger whose configuration passes validate, started in a process
\* where NODE_ENV and APP_ENV are each set or unset.
InitA ==
  /\ config \in {c \in Configs : validate(c) = "ok"}
  /\ nodeEnv \in NodeEnvs
  /\ options \in [webhookSender : OptionSenders,
                  dataSourceOptions : OptionDataSources]
  /\ ctor = "pending"
  /\ webhookSender = "unset"
  /\ executionPlanService = "null"
  /\ ev = [e \in Events |-> NewEvent]
  /\ microtasks = <<>>
  /\ uuidCounter = 0
  /\ calls = [c \in Calls |-> NewCall]
  /\ pq = NewPQueue
  /\ now = 1
  /\ wsend = [k \in WCalls |-> NewWSend]
  /\ analysisDataSource = 0
  /\ dataSources = <<>>
  /\ caps = [c \in Captures |-> NewCapture]
  /\ cleanups = [k \in Cleanups |-> NewCleanup]
  /\ query = <<>>
  /\ parameters = [kind |-> "absent", items |-> <<>>]
  /\ enriched = NotEnriched
  /\ processEnv = NoEnv
  /\ ctorArg = NoArgument
  /\ validation = "pending"
  /\ appEnv \in AppEnvs
  /\ errorStack = NoStack
  /\ stackTrace = NotCaptured

SpecA == InitA /\ [][Next]_vars

\* A continuation at the head of the microtask queue runs: the event loop
\* drains the microtask queue whenever the call stack is empty.
RunMicrotask ==
  \E e \in Events :
    \/ ResumeCreateReportPayload(e)
    \/ ResumeHandleSlowQuery(e)
    \/ FinishHandleSlowQuery(e)

\* The loggers whose plan retrieval can fail: the configuration passes
\* validate, reporting is enabled for the environment, and a plan service
\* is built (execution plans enabled, data-source options given); the stack
\* is captured and NODE_ENV is "development".
InitFair ==
  /\ Init
  /\ nodeEnv = "development"
  /\ validate(config) = "ok"
  /\ isEnabled(config, nodeEnv)
  /\ config.executionPlanEnabled
  /\ config.captureStack
  /\ options.dataSourceOptions # "none"

\* Such a logger, with the event loop's guarantee that ready continuations
\* run.
FairSpec == InitFair /\ [][Next]_vars /\ WF_vars(RunMicrotask)

\* ------------------------------------------------------ QueuedWebhookSender
\* The queue settings the model draws from (queueConcurrency >= 1,
\* queueIntervalCap >= 0 where 0 is unlimited, queueIntervalInMs > 0).
QueueSettings ==
  [queueConcurrency : {1, 2}, queueIntervalCap : {0, 1, 2},
   queueIntervalInMs : {2}]

\* A valid, enabled configuration carrying the queue settings q.
QueueConfig(q) ==
  [apiEndpoint |-> ValidFields.apiEndpoint, apiKey |-> ValidFields.apiKey,
   projectId |-> ValidFields.projectId,
   thresholdMs |-> ValidFields.thresholdMs, maxStack |-> ValidFields.maxStack,
   maxQuery |-> ValidFields.maxQuery, timeoutMs |-> ValidFields.timeoutMs,
   enableDev |-> TRUE, enableProd |-> TRUE, captureStack |-> FALSE,
   executionPlanEnabled |-> FALSE,
   queueConcurrency |-> q.queueConcurrency,
   queueIntervalCap |-> q.queueIntervalCap,
   queueIntervalInMs |-> q.queueIntervalInMs]

\* A count no queue of the model reaches: stands for PQueue's default
\* Infinity.
Infinity == MaxCalls + 1

\* Variant of queueOptions: the concurrency option is not passed (PQueue's
\* default concurrency is Infinity).
queueOptionsNoConcurrency(c) ==
  [concurrency |-> Infinity,
   intervalCap |-> IF c.queueIntervalCap > 0 THEN c.queueIntervalCap
                   ELSE Infinity,
   interval    |-> IF c.queueIntervalCap > 0 THEN c.queueIntervalInMs
                   ELSE 0]

\* Variant of queueOptions: intervalCap is read from the wrong field.
queueOptionsWrongCap(c) ==
  [concurrency |-> c.queueConcurrency,
   intervalCap |-> IF c.queueIntervalCap > 0 THEN c.queueConcurrency
                   ELSE Infinity,
   interval    |-> IF c.queueIntervalCap > 0 THEN c.queueIntervalInMs
                   ELSE 0]

\* constructor: the options passed to new PQueue.  intervalCap and interval
\* are set only when queueIntervalCap > 0; otherwise PQueue keeps its
\* defaults (intervalCap Infinity, interval 0).
queueOptions(c) ==
  [concurrency |-> c.queueConcurrency,
   intervalCap |-> IF c.queueIntervalCap > 0 THEN c.queueIntervalCap
                   ELSE Infinity,
   interval    |-> IF c.queueIntervalCap > 0 THEN c.queueIntervalInMs
                   ELSE 0]

\* PQueue: TRUE when the queue applies no interval limit.
isIntervalIgnored(o) ==
  o.intervalCap = Infinity \/ o.interval = 0

\* PQueue, as configured by the constructor: may another task start?
doesIntervalAllowAnother(o, s) ==
  isIntervalIgnored(o) \/ s.intervalCount < o.intervalCap

doesConcurrentAllowAnother(o, s) ==
  s.pendingCount < o.concurrency

\* PQueue: with no interval timer running, either the last interval is over
\* (the count restarts) or it is still pending (a timeout resumes it at
\* intervalEnd).  Returns the queue and whether the interval is paused.
isIntervalPaused(o, s, t) ==
  IF s.intervalId = -1
    THEN IF s.intervalEnd - t < 0
           THEN [st |-> [s EXCEPT !.intervalCount = 0, !.period = @ + 1],
                 paused |-> FALSE]
           ELSE [st |-> [s EXCEPT !.timeoutId =
                           IF @ = -1 THEN s.intervalEnd ELSE @],
                 paused |-> TRUE]
    ELSE [st |-> s, paused |-> FALSE]

initializeIntervalIfNeeded(o, s, t) ==
  IF isIntervalIgnored(o) \/ s.intervalId # -1 THEN s
  ELSE [s EXCEPT !.intervalId = t + o.interval,
                 !.intervalEnd = t + o.interval]

\* PQueue: start the task at the head of the queue if the limits allow.
\* Returns the queue and the task started (0 when none was).
tryToStartAnother(o, s, t) ==
  IF Len(s.queue) = 0
    THEN [st |-> [s EXCEPT !.intervalId = -1], started |-> 0]
    ELSE LET p  == isIntervalPaused(o, s, t)
             s1 == p.st
         IN  IF doesIntervalAllowAnother(o, s1)
                /\ doesConcurrentAllowAnother(o, s1)
               THEN LET s2 == [s1 EXCEPT !.queue = Tail(@),
                                         !.pendingCount = @ + 1,
                                         !.intervalCount = @ + 1]
                    IN  [st |-> IF ~p.paused
                                  THEN initializeIntervalIfNeeded(o, s2, t)
                                  ELSE s2,
                         started |-> Head(s1.queue)]
               ELSE [st |-> s1, started |-> 0]

\* PQueue: start tasks while the limits allow.  Returns the queue and the
\* tasks started, in order, each with the interval period it started in.
RECURSIVE processQueue(_, _, _)
processQueue(o, s, t) ==
  LET r == tryToStartAnother(o, s, t)
  IN  IF r.started = 0 THEN [st |-> r.st, started |-> <<>>]
      ELSE LET rest == processQueue(o, r.st, t)
           IN  [st |-> rest.st,
                started |-> <<[k |-> r.started, period |-> r.st.period]>>
                            \o rest.started]

\* PQueue: the interval timer's callback.
onInterval(o, s, t) ==
  LET s1 == IF s.intervalCount = 0 /\ s.pendingCount = 0 /\ s.intervalId # -1
              THEN [s EXCEPT !.intervalId = -1] ELSE s
      s2 == [s1 EXCEPT !.intervalCount = 0, !.period = @ + 1]
  IN  processQueue(o, s2, t)

\* The queued task starts: it calls this.webhookSender.send(payload), which
\* issues the POST.
taskStarted(r, t, per) ==
  [r EXCEPT !.pc = "running", !.route = "queue", !.posts = @ + 1,
            !.start = t, !.period = per]

\* calls, after the tasks in started (a sequence) have been started at t.
startAll(cs, started, t) ==
  [k \in Calls |->
     IF \E i \in 1..Len(started) : started[i].k = k
       THEN LET i == CHOOSE i \in 1..Len(started) : started[i].k = k
            IN  taskStarted(cs[k], t, started[i].period)
       ELSE cs[k]]

\* The tasks one tryToStartAnother started (none or one), as processQueue
\* reports them.
startedBy(r) ==
  IF r.started = 0 THEN <<>>
  ELSE <<[k |-> r.started, period |-> r.st.period]>>

InitQ ==
  /\ config \in {QueueConfig(q) : q \in QueueSettings}
  /\ nodeEnv = "development"
  /\ options = [webhookSender |-> "none", dataSourceOptions |-> "none"]
  /\ ctor = "pending"
  /\ webhookSender = "unset"
  /\ executionPlanService = "null"
  /\ ev = [e \in Events |-> NewEvent]
  /\ microtasks = <<>>
  /\ uuidCounter = 0
  /\ calls = [c \in Calls |-> NewCall]
  /\ pq = NewPQueue
  /\ now = 1
  /\ wsend = [k \in WCalls |-> NewWSend]
  /\ analysisDataSource = 0
  /\ dataSources = <<>>
  /\ caps = [c \in Captures |-> NewCapture]
  /\ cleanups = [k \in Cleanups |-> NewCleanup]
  /\ query = <<>>
  /\ parameters = [kind |-> "absent", items |-> <<>>]
  /\ enriched = NotEnriched
  /\ processEnv = NoEnv
  /\ ctorArg = NoArgument
  /\ validation = "pending"
  /\ appEnv = "absent"
  /\ errorStack = NoStack
  /\ stackTrace = NotCaptured

\* Variant of fallbackSend: the direct send is attempted twice.
fallbackSendTwice(r) ==
  [r EXCEPT !.pc = "fallback", !.route = "fallback", !.posts = @ + 2,
            !.log = @ \cup {"Failed to queue webhook"},
            !.promise = "pending"]

\* send's catch block: it logs the queueing failure and calls
\* this.webhookSender.send(payload) once, which issues the POST.
fallbackSend(r) ==
  [r EXCEPT !.pc = "fallback", !.route = "fallback", !.posts = @ + 1,
            !.log = @ \cup {"Failed to queue webhook"},
            !.promise = "pending"]

\* Variant of awaitAdd: the promise of queue.add is not awaited, so send
\* returns (its promise resolves) as soon as the task is in the queue.
addNotAwaited(r) ==
  [r EXCEPT !.pc = "queued", !.promise = "resolved"]

\* send's `await this.queue.add(task)`: the task is in the queue and send is
\* suspended until the promise of queue.add settles, which PQueue does when
\* the task itself has settled.
awaitAdd(r) ==
  [r EXCEPT !.pc = "queued", !.promise = "pending"]

\* send(payload) up to its suspension: queue.add enqueues the task and starts
\* it if the limits allow; if queue.add fails, the catch block logs and calls
\* this.webhookSender.send(payload) directly.
Send(k, addFails) ==
  /\ calls[k].pc = "new"
  /\ \A k2 \in Calls : k2 < k => calls[k2].pc # "new"
  /\ IF addFails
       THEN /\ calls' = [calls EXCEPT ![k] = fallbackSend(@)]
            /\ pq' = pq
       ELSE LET r == tryToStartAnother(queueOptions(config),
                       [pq EXCEPT !.queue = Append(@, k)], now)
                queued == [calls EXCEPT ![k] = awaitAdd(@)]
            IN  /\ pq' = r.st
                /\ calls' = startAll(queued, startedBy(r), now)
  /\ UNCHANGED <<config, loggerVars, unitVars, now>>

\* Variant of queuedTask: the task rejects when its POST failed.
queuedTaskRejects(outcome) ==
  IF outcome = "failed" THEN "rejected" ELSE "resolved"

\* The task given to queue.add, `async () => { await
\* this.webhookSender.send(payload) }`, once the POST has settled:
\* WebhookSender.send resolves whatever the outcome, and so does the task.
queuedTask(outcome) == "resolved"

\* A queued task's POST settles: WebhookSender.send logs and resolves, the
\* task settles and queue.add's promise with it, and PQueue takes the next
\* task (pendingCount--, tryToStartAnother).  send(payload) resolves; had
\* the promise of queue.add rejected, its catch block would run.
TaskSettle(k, outcome) ==
  /\ calls[k].pc = "running"
  /\ LET r == tryToStartAnother(queueOptions(config),
                [pq EXCEPT !.pendingCount = @ - 1], now)
         logged == [calls[k] EXCEPT
                      !.http = outcome,
                      !.log = @ \cup webhookSendLogs(outcome)]
         settled == [calls EXCEPT ![k] =
                       IF queuedTask(outcome) = "rejected"
                         THEN fallbackSend(logged)
                         ELSE [logged EXCEPT !.pc = "resolved",
                                             !.promise = "resolved"]]
     IN  /\ pq' = r.st
         /\ calls' = startAll(settled, startedBy(r), now)
  /\ UNCHANGED <<config, loggerVars, unitVars, now>>

\* The fallback POST settles: WebhookSender.send logs and resolves, so the
\* inner catch is not entered; send(payload) resolves.
FallbackSettle(k, outcome) ==
  /\ calls[k].pc = "fallback"
  /\ calls' = [calls EXCEPT ![k].pc = "resolved",
                            ![k].promise = "resolved",
                            ![k].http = outcome,
                            ![k].log = @ \cup webhookSendLogs(outcome)]
  /\ UNCHANGED <<config, loggerVars, unitVars, pq, now>>

\* The interval timer fires.
IntervalFires ==
  /\ pq.intervalId # -1
  /\ pq.intervalId <= now
  /\ LET r == onInterval(queueOptions(config), pq, now)
     IN  /\ pq' = [r.st EXCEPT !.intervalId =
                     IF @ = pq.intervalId
                       THEN @ + queueOptions(config).interval ELSE @]
         /\ calls' = startAll(calls, r.started, now)
  /\ UNCHANGED <<config, loggerVars, unitVars, now>>

\* The timeout set by isIntervalPaused fires: onResumeInterval.
TimeoutFires ==
  /\ pq.timeoutId # -1
  /\ pq.timeoutId <= now
  /\ LET r  == onInterval(queueOptions(config), pq, now)
         s1 == initializeIntervalIfNeeded(queueOptions(config), r.st, now)
     IN  /\ pq' = [s1 EXCEPT !.timeoutId = -1]
         /\ calls' = startAll(calls, r.started, now)
  /\ UNCHANGED <<config, loggerVars, unitVars, now>>

\* A millisecond passes; timers that are due fire first.
Tick ==
  /\ now < MaxTime
  /\ ~(pq.intervalId # -1 /\ pq.intervalId <= now)
  /\ ~(pq.timeoutId # -1 /\ pq.timeoutId <= now)
  /\ now' = now + 1
  /\ UNCHANGED <<config, loggerVars, unitVars, calls, pq>>

NextQ ==
  \/ \E k \in Calls, f \in BOOLEAN : Send(k, f)
  \/ \E k \in Calls, o \in HttpOutcomes : TaskSettle(k, o)
  \/ \E k \in Calls, o \in HttpOutcomes : FallbackSettle(k, o)
  \/ IntervalFires
  \/ TimeoutFires
  \/ Tick

SpecQ == InitQ /\ [][NextQ]_vars

\* ------------------------------------------------------------ WebhookSender
\* How `await this.httpClient.post(apiEndpoint, payload)` can settle.
\* kind "response": the promise resolves with a response of that status
\* (axios resolves 2xx by default; the code tests the status all the same).
\* kind "error": it rejects; status is error.response.status (0: no
\* response), request whether error.request is set.
PostOutcomes ==
  { [kind |-> "response", status |-> st, isAxiosError |-> FALSE,
     code |-> "none", request |-> TRUE] : st \in {200, 399, 400, 500} }
  \cup
  { [kind |-> "error", status |-> 0, isAxiosError |-> TRUE,
     code |-> "ECONNABORTED", request |-> TRUE],
    [kind |-> "error", status |-> 404, isAxiosError |-> TRUE,
     code |-> "ERR_BAD_REQUEST", request |-> TRUE],
    [kind |-> "error", status |-> 500, isAxiosError |-> TRUE,
     code |-> "ERR_BAD_RESPONSE", request |-> TRUE],
    [kind |-> "error", status |-> 0, isAxiosError |-> TRUE,
     code |-> "ERR_NETWORK", request |-> TRUE],
    [kind |-> "error", status |-> 0, isAxiosError |-> TRUE,
     code |-> "ERR_INVALID_URL", request |-> FALSE],
    [kind |-> "error", status |-> 0, isAxiosError |-> FALSE,
     code |-> "none", request |-> FALSE] }

\* send's try block after the POST resolved: how the call ends and what it
\* logs.
sendTry(response) ==
  [pc |-> "resolved",
   log |-> IF response.status >= 400 THEN {"failed with status"} ELSE {}]

\* Variant of sendCatch: an error that is not an axios error is rethrown.
sendCatchRethrowsUnexpected(error) ==
  IF error.isAxiosError
    THEN [pc |-> "resolved", log |-> {"failed"}]
    ELSE [pc |-> "rejected", log |-> {}]

\* Variant of sendCatch: error.request is tested before error.code.
sendCatchRequestFirst(error) ==
  IF error.isAxiosError
    THEN IF error.status # 0
           THEN [pc |-> "resolved", log |-> {"failed with status"}]
         ELSE IF error.request
           THEN [pc |-> "resolved", log |-> {"no response received"}]
         ELSE IF error.code = "ECONNABORTED"
           THEN [pc |-> "resolved", log |-> {"timeout"}]
         ELSE [pc |-> "resolved", log |-> {"failed"}]
    ELSE [pc |-> "resolved", log |-> {"unexpected error"}]

\* send's catch block: how the call ends and what it logs.
sendCatch(error) ==
  IF error.isAxiosError
    THEN IF error.code = "ECONNABORTED"
           THEN [pc |-> "resolved", log |-> {"timeout"}]
         ELSE IF error.status # 0
           THEN [pc |-> "resolved", log |-> {"failed with status"}]
         ELSE IF error.request
           THEN [pc |-> "resolved", log |-> {"no response received"}]
         ELSE [pc |-> "resolved", log |-> {"failed"}]
    ELSE [pc |-> "resolved", log |-> {"unexpected error"}]

InitW ==
  /\ config = QueueConfig([queueConcurrency |-> 1, queueIntervalCap |-> 0,
                           queueIntervalInMs |-> 2])
  /\ nodeEnv = "development"
  /\ options = [webhookSender |-> "none", dataSourceOptions |-> "none"]
  /\ ctor = "pending"
  /\ webhookSender = "unset"
  /\ executionPlanService = "null"
  /\ ev = [e \in Events |-> NewEvent]
  /\ microtasks = <<>>
  /\ uuidCounter = 0
  /\ calls = [c \in Calls |-> NewCall]
  /\ pq = NewPQueue
  /\ now = 1
  /\ wsend = [k \in WCalls |-> NewWSend]
  /\ analysisDataSource = 0
  /\ dataSources = <<>>
  /\ caps = [c \in Captures |-> NewCapture]
  /\ cleanups = [k \in Cleanups |-> NewCleanup]
  /\ query = <<>>
  /\ parameters = [kind |-> "absent", items |-> <<>>]
  /\ enriched = NotEnriched
  /\ processEnv = NoEnv
  /\ ctorArg = NoArgument
  /\ validation = "pending"
  /\ appEnv = "absent"
  /\ errorStack = NoStack
  /\ stackTrace = NotCaptured

\* send(payload) up to its suspension: it calls this.httpClient.post once
\* and awaits it.
WSend(k) ==
  /\ wsend[k].pc = "new"
  /\ wsend' = [wsend EXCEPT ![k].pc = "posting", ![k].posts = @ + 1]
  /\ UNCHANGED <<config, loggerVars, queueVars, planVars, enrichVars,
                 configVars>>

\* The POST settles and send runs to its end.
WPostSettle(k, o) ==
  /\ wsend[k].pc = "posting"
  /\ LET r == IF o.kind = "response" THEN sendTry(o) ELSE sendCatch(o)
     IN  wsend' = [wsend EXCEPT ![k].pc = r.pc, ![k].settle = o,
                                ![k].log = @ \cup r.log]
  /\ UNCHANGED <<config, loggerVars, queueVars, planVars, enrichVars,
                 configVars>>

NextW ==
  \/ \E k \in WCalls : WSend(k)
  \/ \E k \in WCalls, o \in PostOutcomes : WPostSettle(k, o)

SpecW == InitW /\ [][NextW]_vars

\* ----------------------------------------------------- ExecutionPlanService
\* The dataSourceOptions.type values SpecP draws from: a SQL dialect and a
\* dialect that is not SQL.
ServiceDialects == {"postgres", "mongodb"}

\* The dataSourceOptions.type values SpecD draws from: the dialects the
\* service names, a SQL dialect it does not name, and one that is not SQL.
AllDialects ==
  {"mysql", "mariadb", "postgres", "sqlite", "oracle", "mssql",
   "cockroachdb", "mongodb"}

\* DataSource.isInitialized of the DataSource d refers to (0: null).
isInitialized(dss, d) ==
  d # 0 /\ dss[d].state = "initialized"

\* `await this.analysisDataSource.initialize()` of getAnalysisDataSource is
\* pending for the first DataSource the service created, and it is the
\* cached one.
firstInitializePending(handle, dss) ==
  handle # 0 /\ Len(dss) = 1 /\ dss[handle].state = "initializing"

\* getAnalysisDataSource's test: is a new DataSource created?
needsNewDataSource(handle, dss) ==
  handle = 0 \/ ~isInitialized(dss, handle)

\* new DataSource(analysisOptions), before initialize() has settled.
NewDataSource ==
  [state |-> "initializing", destroyCalls |-> 0, destroyed |-> 0]

\* Variant of captureCatch: the query runner is not released after a
\* failure.
captureCatchNoRelease(r) ==
  [r EXCEPT !.result = "null", !.log = @ \cup {"warn"}, !.pc = "resolved"]

\* captureExecutionPlan's catch block followed by its finally block: warn,
\* return null, and release the query runner if one was created.
captureCatch(r) ==
  [r EXCEPT !.result = "null", !.log = @ \cup {"warn"},
            !.pc = IF r.runner = "created" THEN "awaitRelease"
                   ELSE "resolved",
            !.releases = IF r.runner = "created" THEN @ + 1 ELSE @]

\* captureExecutionPlan's return of the result for dialect dbType followed
\* by its finally block (a query runner exists on this path).
captureReturn(r, dbType) ==
  [r EXCEPT !.result = "result", !.returned = ExecutionPlanResult(dbType),
            !.pc = "awaitRelease", !.releases = @ + 1]

\* Variant of buildExplainQuery: the query without a prefix.
buildExplainQueryBare(dbType) == "${query}"

\* Variant of buildExplainQuery: the default command for every dialect.
buildExplainQueryPlain(dbType) == "EXPLAIN ${query}"

\* buildExplainQuery(dbType, query): the command; "${query}" stands for the
\* query text it ends with.
buildExplainQuery(dbType) ==
  CASE dbType \in {"mysql", "mariadb"} -> "EXPLAIN FORMAT=JSON ${query}"
    [] dbType = "postgres" -> "EXPLAIN (FORMAT JSON) ${query}"
    [] dbType = "sqlite" -> "EXPLAIN QUERY PLAN ${query}"
    [] dbType = "oracle" -> "EXPLAIN PLAN FOR ${query}"
    [] OTHER -> "EXPLAIN ${query}"

\* Variant of mssqlStep: the catch block rethrows without a command.
mssqlStepBareCatch(r, ok) ==
  IF r.pc = "awaitShowplanOn"
    THEN IF ok THEN [r EXCEPT !.showplan = "on", !.pc = "awaitMssqlQuery",
                              !.commands = Append(@, "${query}")]
         ELSE captureCatch([r EXCEPT !.mssqlError = "SET SHOWPLAN_XML ON"])
  ELSE IF r.pc = "awaitMssqlQuery"
    THEN IF ok THEN [r EXCEPT !.pc = "awaitShowplanOff", !.mssqlQuery = "ok",
                              !.commands = Append(@, "SET SHOWPLAN_XML OFF")]
         ELSE captureCatch([r EXCEPT !.mssqlQuery = "failed",
                                     !.mssqlError = "${query}"])
  ELSE IF ok THEN captureReturn([r EXCEPT !.showplan = "off"], "mssql")
       ELSE captureCatch([r EXCEPT !.mssqlError = "SET SHOWPLAN_XML OFF"])

\* captureExecutionPlanForMssql, one settled command at a time.  A failed
\* command enters the catch block, where SET SHOWPLAN_XML OFF is issued and
\* awaited; then the caught error is rethrown, unless OFF failed: then the
\* await throws OFF's error.  Both end in captureExecutionPlan's catch.
mssqlStep(r, ok) ==
  IF r.pc = "awaitShowplanOn"
    THEN IF ok THEN [r EXCEPT !.showplan = "on", !.pc = "awaitMssqlQuery",
                              !.commands = Append(@, "${query}")]
         ELSE [r EXCEPT !.pc = "awaitShowplanOffCatch",
                        !.mssqlError = "SET SHOWPLAN_XML ON",
                        !.commands = Append(@, "SET SHOWPLAN_XML OFF")]
  ELSE IF r.pc = "awaitMssqlQuery"
    THEN IF ok THEN [r EXCEPT !.pc = "awaitShowplanOff", !.mssqlQuery = "ok",
                              !.commands = Append(@, "SET SHOWPLAN_XML OFF")]
         ELSE [r EXCEPT !.pc = "awaitShowplanOffCatch",
                        !.mssqlQuery = "failed", !.mssqlError = "${query}",
                        !.commands = Append(@, "SET SHOWPLAN_XML OFF")]
  ELSE IF r.pc = "awaitShowplanOff"
    THEN IF ok THEN captureReturn([r EXCEPT !.showplan = "off"], "mssql")
         ELSE [r EXCEPT !.pc = "awaitShowplanOffCatch",
                        !.mssqlError = "SET SHOWPLAN_XML OFF",
                        !.commands = Append(@, "SET SHOWPLAN_XML OFF")]
  ELSE IF ok THEN captureCatch([r EXCEPT !.showplan = "off"])
       ELSE captureCatch([r EXCEPT !.mssqlError = "SET SHOWPLAN_XML OFF"])

\* Variant of cleanupGuard: destroy is called whenever a handle is cached.
cleanupGuardAnyHandle(handle, dss) ==
  handle # 0

\* cleanup's test `this.analysisDataSource?.isInitialized`.
cleanupGuard(handle, dss) ==
  isInitialized(dss, handle)

\* An ExecutionPlanService built with dataSourceOptions of one of the given
\* dialects, before its first call.
InitService(dialects) ==
  /\ config = [QueueConfig([queueConcurrency |-> 1, queueIntervalCap |-> 0,
                            queueIntervalInMs |-> 2])
                 EXCEPT !.executionPlanEnabled = TRUE]
  /\ nodeEnv = "development"
  /\ executionPlanService \in dialects
  /\ options = [webhookSender |-> "none",
                dataSourceOptions |-> executionPlanService]
  /\ ctor = "pending"
  /\ webhookSender = "unset"
  /\ ev = [e \in Events |-> NewEvent]
  /\ microtasks = <<>>
  /\ uuidCounter = 0
  /\ calls = [c \in Calls |-> NewCall]
  /\ pq = NewPQueue
  /\ now = 1
  /\ wsend = [k \in WCalls |-> NewWSend]
  /\ analysisDataSource = 0
  /\ dataSources = <<>>
  /\ caps = [c \in Captures |-> NewCapture]
  /\ cleanups = [k \in Cleanups |-> NewCleanup]
  /\ query = <<>>
  /\ parameters = [kind |-> "absent", items |-> <<>>]
  /\ enriched = NotEnriched
  /\ processEnv = NoEnv
  /\ ctorArg = NoArgument
  /\ validation = "pending"
  /\ appEnv = "absent"
  /\ errorStack = NoStack
  /\ stackTrace = NotCaptured

InitP == InitService(ServiceDialects)

\* captureExecutionPlan(query, parameters) up to its first suspension: the
\* dialect test, then getAnalysisDataSource up to `await initialize()` (a
\* DataSource is created and cached when none is cached or the cached one
\* is not initialized; its constructor may throw) or up to its return.
CaptureStart(c, newOk) ==
  /\ caps[c].pc = "new"
  /\ \A c2 \in Captures : c2 < c => caps[c2].pc # "new"
  /\ IF ~isSqlDatabase(executionPlanService)
       THEN /\ caps' = [caps EXCEPT ![c] =
                         [@ EXCEPT !.pc = "resolved", !.result = "null"]]
            /\ UNCHANGED <<analysisDataSource, dataSources>>
     ELSE IF needsNewDataSource(analysisDataSource, dataSources)
       THEN IF newOk
              THEN /\ dataSources' = Append(dataSources, NewDataSource)
                   /\ analysisDataSource' = Len(dataSources) + 1
                   /\ caps' = [caps EXCEPT ![c] =
                                [@ EXCEPT !.pc = "awaitInit",
                                          !.created = Len(dataSources) + 1]]
              ELSE /\ caps' = [caps EXCEPT ![c] = captureCatch(@)]
                   /\ UNCHANGED <<analysisDataSource, dataSources>>
     ELSE /\ caps' = [caps EXCEPT ![c] =
                       [@ EXCEPT !.pc = "awaitDs",
                                 !.ds = analysisDataSource]]
          /\ UNCHANGED <<analysisDataSource, dataSources>>
  /\ UNCHANGED <<config, loggerVars, queueVars, configVars, wsend, enrichVars,
                 cleanups>>

\* initialize() of the DataSource the call created settles; on success
\* getAnalysisDataSource returns this.analysisDataSource as it is then.
InitializeSettle(c, ok) ==
  /\ caps[c].pc = "awaitInit"
  /\ IF ok
       THEN /\ dataSources' = [dataSources EXCEPT
                                ![caps[c].created].state = "initialized"]
            /\ caps' = [caps EXCEPT ![c] =
                         [@ EXCEPT !.pc = "awaitDs",
                                   !.ds = analysisDataSource]]
       ELSE /\ dataSources' = [dataSources EXCEPT
                                ![caps[c].created].state = "failed"]
            /\ caps' = [caps EXCEPT ![c] = captureCatch(@)]
  /\ UNCHANGED <<config, loggerVars, queueVars, configVars, wsend, enrichVars,
                 analysisDataSource, cleanups>>

\* captureExecutionPlan resumes with the DataSource: createQueryRunner()
\* (a TypeError on null; it may throw) and `await queryRunner.connect()`.
CreateQueryRunner(c, ok) ==
  /\ caps[c].pc = "awaitDs"
  /\ caps' = [caps EXCEPT ![c] =
               IF caps[c].ds = 0 \/ ~ok THEN captureCatch(@)
               ELSE [@ EXCEPT !.runner = "created", !.pc = "awaitConnect"]]
  /\ UNCHANGED <<config, loggerVars, queueVars, configVars, wsend, enrichVars,
                 analysisDataSource, dataSources, cleanups>>

\* queryRunner.connect() settles (it cannot succeed on a DataSource that is
\* not initialized); on success the first plan command is issued: SET
\* SHOWPLAN_XML ON by captureExecutionPlanForMssql, the explain query for
\* the other dialects.
ConnectSettle(c, ok) ==
  /\ caps[c].pc = "awaitConnect"
  /\ ok => isInitialized(dataSources, caps[c].ds)
  /\ caps' = [caps EXCEPT ![c] =
               IF ~ok THEN captureCatch(@)
               ELSE IF executionPlanService = "mssql"
                 THEN [@ EXCEPT !.pc = "awaitShowplanOn",
                                !.commands = <<"SET SHOWPLAN_XML ON">>]
               ELSE [@ EXCEPT !.pc = "awaitQuery",
                              !.commands =
                                <<buildExplainQuery(executionPlanService)>>]]
  /\ UNCHANGED <<config, loggerVars, queueVars, configVars, wsend, enrichVars,
                 analysisDataSource, dataSources, cleanups>>

\* queryRunner.query(explainQuery, parameters) settles.
QuerySettle(c, ok) ==
  /\ caps[c].pc = "awaitQuery"
  /\ caps' = [caps EXCEPT ![c] =
               IF ok THEN captureReturn(@, executionPlanService)
               ELSE captureCatch(@)]
  /\ UNCHANGED <<config, loggerVars, queueVars, configVars, wsend, enrichVars,
                 analysisDataSource, dataSources, cleanups>>

\* A command of captureExecutionPlanForMssql settles.
MssqlSettle(c, ok) ==
  /\ caps[c].pc \in {"awaitShowplanOn", "awaitMssqlQuery",
                     "awaitShowplanOff", "awaitShowplanOffCatch"}
  /\ caps' = [caps EXCEPT ![c] = mssqlStep(@, ok)]
  /\ UNCHANGED <<config, loggerVars, queueVars, configVars, wsend, enrichVars,
                 analysisDataSource, dataSources, cleanups>>

\* `await queryRunner.release()` in the finally block settles: the call
\* settles with its result, or rejects with release's error.
ReleaseSettle(c, ok) ==
  /\ caps[c].pc = "awaitRelease"
  /\ caps' = [caps EXCEPT ![c] =
               IF ok THEN [@ EXCEPT !.pc = "resolved", !.runner = "released"]
               ELSE [@ EXCEPT !.pc = "rejected"]]
  /\ UNCHANGED <<config, loggerVars, queueVars, configVars, wsend, enrichVars,
                 analysisDataSource, dataSources, cleanups>>

\* cleanup() up to its suspension; teardown calls are made one after
\* another.  It calls destroy() on an initialized cached DataSource.
CleanupStart(k) ==
  /\ cleanups[k].pc = "new"
  /\ \A k2 \in Cleanups : k2 < k => cleanups[k2].pc \in {"resolved", "rejected"}
  /\ LET called == [cleanups[k] EXCEPT
                      !.duringInit =
                        IF firstInitializePending(analysisDataSource,
                                                  dataSources)
                          THEN Cardinality({c \in Captures :
                                              caps[c].pc # "new"})
                          ELSE 0]
     IN  IF cleanupGuard(analysisDataSource, dataSources)
           THEN /\ dataSources' = [dataSources EXCEPT
                                    ![analysisDataSource].destroyCalls = @ + 1]
                /\ cleanups' = [cleanups EXCEPT ![k] =
                                 [called EXCEPT !.pc = "awaitDestroy",
                                                !.target = analysisDataSource,
                                                !.destroyCalls = @ + 1]]
           ELSE /\ dataSources' = dataSources
                /\ cleanups' = [cleanups EXCEPT ![k] =
                                 [called EXCEPT !.pc = "resolved"]]
  /\ UNCHANGED <<config, loggerVars, queueVars, configVars, wsend, enrichVars,
                 analysisDataSource, caps>>

\* destroy() settles: on success the DataSource is no longer initialized
\* and cleanup sets this.analysisDataSource to null; on failure cleanup
\* rejects.
DestroySettle(k, ok) ==
  /\ cleanups[k].pc = "awaitDestroy"
  /\ IF ok
       THEN /\ dataSources' = [dataSources EXCEPT
                                ![cleanups[k].target] =
                                  [@ EXCEPT !.state = "destroyed",
                                            !.destroyed = @ + 1]]
            /\ analysisDataSource' = 0
            /\ cleanups' = [cleanups EXCEPT ![k].pc = "resolved"]
       ELSE /\ cleanups' = [cleanups EXCEPT ![k].pc = "rejected"]
            /\ UNCHANGED <<analysisDataSource, dataSources>>
  /\ UNCHANGED <<config, loggerVars, queueVars, configVars, wsend, enrichVars,
                 caps>>

NextP ==
  \/ \E c \in Captures, ok \in BOOLEAN : CaptureStart(c, ok)
  \/ \E c \in Captures, ok \in BOOLEAN : InitializeSettle(c, ok)
  \/ \E c \in Captures, ok \in BOOLEAN : CreateQueryRunner(c, ok)
  \/ \E c \in Captures, ok \in BOOLEAN : ConnectSettle(c, ok)
  \/ \E c \in Captures, ok \in BOOLEAN : QuerySettle(c, ok)
  \/ \E c \in Captures, ok \in BOOLEAN : ReleaseSettle(c, ok)
  \/ \E k \in Cleanups : CleanupStart(k)
  \/ \E k \in Cleanups, ok \in BOOLEAN : DestroySettle(k, ok)

SpecP == InitP /\ [][NextP]_vars

\* captureExecutionPlan on a service of any dialect, with no teardown.
InitD == InitService(AllDialects)

NextD ==
  \/ \E c \in Captures, ok \in BOOLEAN : CaptureStart(c, ok)
  \/ \E c \in Captures, ok \in BOOLEAN : InitializeSettle(c, ok)
  \/ \E c \in Captures, ok \in BOOLEAN : CreateQueryRunner(c, ok)
  \/ \E c \in Captures, ok \in BOOLEAN : ConnectSettle(c, ok)
  \/ \E c \in Captures, ok \in BOOLEAN : QuerySettle(c, ok)
  \/ \E c \in Captures, ok \in BOOLEAN : MssqlSettle(c, ok)
  \/ \E c \in Captures, ok \in BOOLEAN : ReleaseSettle(c, ok)

SpecD == InitD /\ [][NextD]_vars

\* ------------------------------------- createReportPayload: enrichment
\* Query strings, as sequences of characters.
Queries ==
  UNION {[1..n -> {"a", "b"}] : n \in 0..MaxQueryLen}

\* The kinds of value a parameter can be: the branches of
\* sanitizeParameters ("invalidDate": a Date whose toISOString() throws;
\* "function": neither primitive nor object, e.g. a function, symbol or
\* bigint).
ParamKinds ==
  {"null", "undefined", "string", "number", "boolean", "date",
   "invalidDate", "object", "function"}

\* The parameters argument: absent, null, a value that is not an array, or
\* an array of values.
ParameterInputs ==
  { [kind |-> k, items |-> <<>>] : k \in {"absent", "null", "notArray"} }
  \cup
  { [kind |-> "array", items |-> a] :
      a \in UNION {[1..n -> ParamKinds] : n \in 0..MaxParams} }

\* The marker truncateQuery appends: "... [TRUNCATED]".
TruncatedMarker ==
  <<".", ".", ".", " ", "[", "T", "R", "U", "N", "C", "A", "T", "E", "D",
    "]">>

\* Variant of truncateQuery: a query of exactly maxQuery characters is
\* truncated too.
truncateQueryStrict(q, c) ==
  IF Len(q) < c.maxQuery THEN q
  ELSE SubSeq(q, 1, c.maxQuery) \o TruncatedMarker

\* truncateQuery(query), with this.config = c.
truncateQuery(q, c) ==
  IF Len(q) <= c.maxQuery THEN q
  ELSE SubSeq(q, 1, c.maxQuery) \o TruncatedMarker

\* Variant of sanitizeTry: the object test comes before the Date test.
sanitizeTryObjectFirst(param) ==
  IF param \in {"null", "undefined"} THEN [threw |-> FALSE, value |-> param]
  ELSE IF param \in {"string", "number", "boolean"}
    THEN [threw |-> FALSE, value |-> param]
  ELSE IF param \in {"object", "date", "invalidDate"}
    THEN [threw |-> FALSE, value |-> "[Object]"]
  ELSE [threw |-> FALSE, value |-> "String(param)"]

\* The try block of sanitizeParameters' callback for one parameter: the
\* value stored, or that it threw.
sanitizeTry(param) ==
  IF param \in {"null", "undefined"} THEN [threw |-> FALSE, value |-> param]
  ELSE IF param \in {"string", "number", "boolean"}
    THEN [threw |-> FALSE, value |-> param]
  ELSE IF param = "date" THEN [threw |-> FALSE, value |-> "toISOString"]
  ELSE IF param = "invalidDate" THEN [threw |-> TRUE, value |-> "none"]
  ELSE IF param = "object" THEN [threw |-> FALSE, value |-> "[Object]"]
  ELSE [threw |-> FALSE, value |-> "String(param)"]

\* The callback with its catch block.
sanitizeEntry(param) ==
  IF sanitizeTry(param).threw
    THEN [threw |-> FALSE, value |-> "[Unparseable]"]
    ELSE sanitizeTry(param)

\* The key `param_${index}`.
paramKey(index) ==
  [prefix |-> "param_", index |-> index]

\* Variant of sanitizeParameters: null and undefined entries are skipped.
sanitizeParametersSkipsNull(ps) ==
  IF ps.kind # "array" THEN [threw |-> FALSE, entries |-> <<>>]
  ELSE [threw |-> FALSE,
        entries |->
          SelectSeq([i \in 1..Len(ps.items) |->
                       [key |-> paramKey(i - 1),
                        value |-> sanitizeEntry(ps.items[i]).value]],
                    LAMBDA en : en.value \notin {"null", "undefined"})]

\* sanitizeParameters(parameters): the entries of the object returned, in
\* insertion order, and whether the call threw.
sanitizeParameters(ps) ==
  IF ps.kind # "array" THEN [threw |-> FALSE, entries |-> <<>>]
  ELSE [threw |-> \E i \in 1..Len(ps.items) : sanitizeEntry(ps.items[i]).threw,
        entries |-> [i \in 1..Len(ps.items) |->
                       [key |-> paramKey(i - 1),
                        value |-> sanitizeEntry(ps.items[i]).value]]]

\* A constructed logger's configuration (it passed validate) with maxQuery
\* 1 or 2.
InitE ==
  /\ config \in {[QueueConfig([queueConcurrency |-> 1, queueIntervalCap |-> 0,
                               queueIntervalInMs |-> 2])
                    EXCEPT !.maxQuery = m] : m \in {1, 2}}
  /\ nodeEnv = "development"
  /\ options = [webhookSender |-> "none", dataSourceOptions |-> "none"]
  /\ ctor = "pending"
  /\ webhookSender = "unset"
  /\ executionPlanService = "null"
  /\ ev = [e \in Events |-> NewEvent]
  /\ microtasks = <<>>
  /\ uuidCounter = 0
  /\ calls = [c \in Calls |-> NewCall]
  /\ pq = NewPQueue
  /\ now = 1
  /\ wsend = [k \in WCalls |-> NewWSend]
  /\ analysisDataSource = 0
  /\ dataSources = <<>>
  /\ caps = [c \in Captures |-> NewCapture]
  /\ cleanups = [k \in Cleanups |-> NewCleanup]
  /\ query \in Queries
  /\ parameters \in ParameterInputs
  /\ enriched = NotEnriched
  /\ processEnv = NoEnv
  /\ ctorArg = NoArgument
  /\ validation = "pending"
  /\ appEnv = "absent"
  /\ errorStack = NoStack
  /\ stackTrace = NotCaptured

\* const truncatedQuery = this.truncateQuery(query)
TruncateQuery ==
  /\ "truncateQuery" \notin enriched.done
  /\ enriched' = [enriched EXCEPT
                    !.done = @ \cup {"truncateQuery"},
                    !.truncatedQuery = truncateQuery(query, config)]
  /\ UNCHANGED <<config, loggerVars, queueVars, configVars, wsend, planVars,
                 query, parameters, errorStack, stackTrace>>

\* const safeParameters = this.sanitizeParameters(parameters)
SanitizeParameters ==
  /\ "truncateQuery" \in enriched.done
  /\ "sanitizeParameters" \notin enriched.done
  /\ enriched' = [enriched EXCEPT
                    !.done = @ \cup {"sanitizeParameters"},
                    !.threw = sanitizeParameters(parameters).threw,
                    !.safeParameters = sanitizeParameters(parameters).entries]
  /\ UNCHANGED <<config, loggerVars, queueVars, configVars, wsend, planVars,
                 query, parameters, errorStack, stackTrace>>

NextE ==
  \/ TruncateQuery
  \/ SanitizeParameters

SpecE == InitE /\ [][NextE]_vars

\* ------------------------------------------------------ captureStackTrace
\* The kinds of line a stack holds: a frame of the application, of the
\* analyzer (its text holds "QueryAnalyzerLogger"), of the ORM under a path
\* holding "node_modules/typeorm", of the ORM under another path (Windows
\* separators, a linked checkout), the process.processTicksAndRejections
\* frame, and another frame of node:internal/.
FrameKinds ==
  {"user", "analyzer", "orm", "ormElsewhere", "ticks", "nodeInternal"}

\* The stacks: captureStackTrace's own frame, then up to MaxFrames frames.
Stacks ==
  {[obtainable |-> TRUE, lines |-> <<"analyzer">> \o fs] :
     fs \in UNION {[1..n -> FrameKinds] : n \in 0..MaxFrames}}

\* line.includes("QueryAnalyzerLogger") || line.includes(
\* "QueryAnalyzerInterceptor") || line.includes("node_modules/typeorm")
skipsLine(line) == line \in {"analyzer", "orm"}

\* line.includes("process.processTicksAndRejections")
isProcessTicks(line) == line = "ticks"

\* line.includes("node:internal/")
isNodeInternal(line) == line \in {"ticks", "nodeInternal"}

\* The for loop of captureStackTrace from line i on: the positions of the
\* lines pushed to filteredLines.
RECURSIVE captureLoop(_, _, _, _, _, _)
captureLoop(lines, i, foundProcessTicks, startCapturing, filteredLines, maxStack) ==
  IF i > Len(lines) THEN filteredLines
  ELSE IF skipsLine(lines[i])
    THEN captureLoop(lines, i + 1, foundProcessTicks, startCapturing,
                     filteredLines, maxStack)
  ELSE IF isProcessTicks(lines[i])
    THEN captureLoop(lines, i + 1, TRUE, TRUE, filteredLines, maxStack)
  ELSE IF startCapturing \/ ~foundProcessTicks
    THEN IF isNodeInternal(lines[i]) /\ ~startCapturing
           THEN captureLoop(lines, i + 1, foundProcessTicks, startCapturing,
                            filteredLines, maxStack)
         ELSE IF jsLessEq(maxStack, Len(filteredLines) + 1)
           THEN Append(filteredLines, i)
         ELSE captureLoop(lines, i + 1, foundProcessTicks, startCapturing,
                          Append(filteredLines, i), maxStack)
  ELSE captureLoop(lines, i + 1, foundProcessTicks, startCapturing,
                   filteredLines, maxStack)

\* convertToRelativePath(stackLine) on a line of each kind: the path of a
\* file is rewritten relative to process.cwd(); a node:internal/ line does
\* not match either pattern and is returned as it is.
convertToRelativePath(line) ==
  IF isNodeInternal(line) THEN "unchanged" ELSE "relative"

\* captureStackTrace(), with this.config = c: per entry the position of its
\* line in the stack, the frame and how its path was rendered.
captureStackTrace(stack, c) ==
  IF ~stack.obtainable THEN <<>>
  ELSE LET kept == captureLoop(stack.lines, 1, FALSE, FALSE, <<>>, c.maxStack)
       IN  [j \in 1..Len(kept) |->
              [line |-> kept[j], frame |-> stack.lines[kept[j]],
               path |-> convertToRelativePath(stack.lines[kept[j]])]]

\* A constructed logger's configuration with captureStack on or off and
\* maxStack 1 or 2, and the stack captureStackTrace will read.
InitS ==
  /\ config \in {[QueueConfig([queueConcurrency |-> 1, queueIntervalCap |-> 0,
                               queueIntervalInMs |-> 2])
                    EXCEPT !.captureStack = s, !.maxStack = m] :
                      s \in BOOLEAN, m \in {1, 2}}
  /\ nodeEnv = "development"
  /\ options = [webhookSender |-> "none", dataSourceOptions |-> "none"]
  /\ ctor = "pending"
  /\ webhookSender = "unset"
  /\ executionPlanService = "null"
  /\ ev = [e \in Events |-> NewEvent]
  /\ microtasks = <<>>
  /\ uuidCounter = 0
  /\ calls = [c \in Calls |-> NewCall]
  /\ pq = NewPQueue
  /\ now = 1
  /\ wsend = [k \in WCalls |-> NewWSend]
  /\ analysisDataSource = 0
  /\ dataSources = <<>>
  /\ caps = [c \in Captures |-> NewCapture]
  /\ cleanups = [k \in Cleanups |-> NewCleanup]
  /\ query = <<>>
  /\ parameters = [kind |-> "absent", items |-> <<>>]
  /\ enriched = NotEnriched
  /\ processEnv = NoEnv
  /\ ctorArg = NoArgument
  /\ validation = "pending"
  /\ appEnv = "absent"
  /\ errorStack \in Stacks \cup {NoStack}
  /\ stackTrace = NotCaptured

\* const stackTrace = this.config.captureStack ? this.captureStackTrace() : []
CaptureStack ==
  /\ ~stackTrace.done
  /\ stackTrace' =
       [done |-> TRUE,
        frames |-> IF config.captureStack
                     THEN captureStackTrace(errorStack, config) ELSE <<>>]
  /\ UNCHANGED <<config, loggerVars, queueVars, configVars, wsend, planVars,
                 query, parameters, enriched, errorStack>>

NextS ==
  \/ CaptureStack

SpecS == InitS /\ [][NextS]_vars

\* ------------------------------------------- configuration of a new logger
\* A process with its environment, about to call new QueryAnalyzerLogger
\* with one argument, or none.
InitC ==
  /\ processEnv \in Envs
  /\ ctorArg \in ConstructorArguments(processEnv)
  /\ validation = "pending"
  /\ appEnv = "absent"
  /\ errorStack = NoStack
  /\ stackTrace = NotCaptured
  /\ config = NoConfig
  /\ nodeEnv = "development"
  /\ options = [webhookSender |-> "none", dataSourceOptions |-> "none"]
  /\ ctor = "pending"
  /\ webhookSender = "unset"
  /\ executionPlanService = "null"
  /\ ev = [e \in Events |-> NewEvent]
  /\ microtasks = <<>>
  /\ uuidCounter = 0
  /\ calls = [c \in Calls |-> NewCall]
  /\ pq = NewPQueue
  /\ now = 1
  /\ wsend = [k \in WCalls |-> NewWSend]
  /\ analysisDataSource = 0
  /\ dataSources = <<>>
  /\ caps = [c \in Captures |-> NewCapture]
  /\ cleanups = [k \in Cleanups |-> NewCleanup]
  /\ query = <<>>
  /\ parameters = [kind |-> "absent", items |-> <<>>]
  /\ enriched = NotEnriched

\* constructor(options = {}) on ctorArg: this.config is chosen, validated,
\* and the sender picked.  None of the arguments has a webhookSender or a
\* dataSourceOptions property, so the plan service is null.
NewQueryAnalyzerLogger ==
  /\ ctor = "pending"
  /\ config' = optionsConfigOr(ctorArg, processEnv)
  /\ validation' = validate(config')
  /\ IF validate(config') = "ok"
       THEN /\ webhookSender' = "webhook"
            /\ ctor' = "ok"
       ELSE IF MockWebhookSenderNew(<<>>) = "ok"
              THEN /\ webhookSender' = "mock"
                   /\ ctor' = "ok"
              ELSE /\ ctor' = "threw"
                   /\ UNCHANGED webhookSender
  /\ executionPlanService' = "null"
  /\ UNCHANGED <<nodeEnv, options, ev, microtasks, uuidCounter, processEnv,
                 ctorArg, appEnv>>
  /\ UNCHANGED <<queueVars, wsend, planVars, enrichVars>>

NextC ==
  \/ NewQueryAnalyzerLogger

SpecC == InitC /\ [][NextC]_vars


\* ==================================================================== claims

\* An event that logQuerySlow received while reporting was enabled for the
\* environment and with a duration of at least thresholdMs.
Activated(e) ==
  /\ ev[e].pc # "new"
  /\ isEnabled(config, nodeEnv)
  /\ ev[e].time >= config.thresholdMs

\* C1: every logQuerySlow call made while reporting is enabled and with
\* time >= thresholdMs is handled (never ignored), the sender's send is
\* invoked at most once for it, exactly once by the time the handler has
\* reached or passed the send, and the queryId of its payload differs from
\* the queryId of every other payload built.
C1_ExactlyOnePayloadDelivered ==
  \A e \in Events :
    Activated(e) =>
      /\ ev[e].pc # "ignored"
      /\ ev[e].sends <= 1
      /\ (ev[e].pc \in {"awaitSend", "done"} =>
            ev[e].sends = 1 /\ ev[e].queryId # 0)
      /\ \A e2 \in Events :
           (e2 # e /\ ev[e].queryId # 0 /\ ev[e2].queryId # 0)
             => ev[e2].queryId # ev[e].queryId

C1_Witness ==
  /\ \A e \in Events : Activated(e) /\ ev[e].pc = "done" /\ ev[e].sends = 1
  /\ ev[1].queryId # ev[2].queryId

\* C2: for a logQuerySlow call with time < thresholdMs no payload is built,
\* no execution-plan retrieval is started and no send is invoked, whatever
\* enableDev, enableProd and the environment are.
C2_BelowThresholdNothingHappens ==
  \A e \in Events :
    (ev[e].pc # "new" /\ ev[e].time < config.thresholdMs) =>
      /\ ev[e].pc = "ignored"
      /\ ev[e].queryId = 0
      /\ ev[e].plan = "none"
      /\ ev[e].sends = 0
      /\ ev[e].posts = 0

C2_Witness ==
  \E e \in Events :
    /\ ev[e].pc = "ignored"
    /\ ev[e].time < config.thresholdMs
    /\ isEnabled(config, nodeEnv)
    /\ executionPlanService # "null"

\* C3: no error raised while a slow query is handled reaches the caller of
\* logQuerySlow, as an exception or as a rejected promise: a rejected plan
\* retrieval is caught and logged by createReportPayload, and a send that
\* throws or rejects is caught and logged by handleSlowQuery.
C3_NoErrorEscapes ==
  \A e \in Events :
    /\ ev[e].escaped = "none"
    /\ (ev[e].plan = "rejected" /\ ev[e].pc # "awaitPlan")
         => "planWarn" \in ev[e].log
    /\ (ev[e].pc = "done" /\ ev[e].send \in {"threw", "rejected"})
         => "sendError" \in ev[e].log

C3_Witness ==
  /\ \E e \in Events :
       ev[e].pc = "done" /\ ev[e].plan = "rejected" /\ ev[e].send = "rejected"
  /\ \E e \in Events : ev[e].pc = "done" /\ ev[e].send = "threw"

\* C4 (as claimed): constructing a logger with a configuration that fails
\* validation does not throw and installs the mock sender, and no later
\* event issues an HTTP request or raises into the host.
C4_Claim ==
  (ctor # "pending" /\ validate(config) # "ok") =>
    /\ ctor = "ok"
    /\ webhookSender = "mock"
    /\ \A e \in Events : ev[e].posts = 0 /\ ev[e].escaped = "none"

\* C5 (as claimed): none of stack capture, execution-plan retrieval and
\* webhook delivery completes inside the synchronous call of logQuerySlow.
C5_Claim ==
  \A e \in Events :
    ev[e].atReturn \cap {"stack", "plan", "send", "delivery"} = {}

\* C5 (amended): when logQuerySlow returns, the sender's send has not been
\* invoked and no delivery has completed, and no plan retrieval has settled
\* except the retrieval for a dialect that is not a SQL dialect, which
\* returns nothing without suspending; the stack capture has completed
\* inside the call whenever captureStack is set.
C5_ReturnsBeforePlanAndDelivery ==
  \A e \in Events :
    /\ "send" \notin ev[e].atReturn
    /\ "delivery" \notin ev[e].atReturn
    /\ "plan" \in ev[e].atReturn => ~isSqlDatabase(executionPlanService)
    /\ (ev[e].pc \notin {"new", "ignored"} /\ config.captureStack)
         => "stack" \in ev[e].atReturn
    /\ (ev[e].pc \notin {"new", "ignored"} /\ executionPlanService = "null")
         => "payload" \in ev[e].atReturn

C5_Witness ==
  \E e \in Events :
    /\ ev[e].pc = "done"
    /\ ev[e].atReturn = {"stack"}
    /\ ev[e].plan = "result"
    /\ ev[e].send = "resolved"

C7_Claim ==
  (validate(config) = "ok" /\ options.webhookSender = "none") =>
    \A e \in Events :
      ev[e].posts > 0 => ev[e].route \in {"queue", "fallback"}

\* The send calls whose POST is in flight, and those among them that the
\* queue started.
InFlight == {k \in Calls : calls[k].pc \in {"running", "fallback"}}

Running == {k \in Calls : calls[k].pc = "running"}

StartedInWindow(t) ==
  {k \in Calls : /\ calls[k].route = "queue"
                 /\ t <= calls[k].start
                 /\ calls[k].start < t + config.queueIntervalInMs}

\* The tasks the queue started in interval period p (between two resets of
\* its interval count).
StartedInPeriod(p) ==
  {k \in Calls : calls[k].route = "queue" /\ calls[k].period = p}

\* With queueIntervalCap = 0 no task waits while a concurrency slot is free.
OnlyConcurrencyLimits ==
  config.queueIntervalCap = 0 =>
    (Len(pq.queue) > 0 => pq.pendingCount >= config.queueConcurrency)

C10_FallbackExactlyOnce ==
  \A k \in Calls :
    /\ calls[k].pc \in {"new", "queued", "running", "fallback", "resolved"}
    /\ calls[k].posts <= 1
    /\ calls[k].route = "fallback" =>
         /\ calls[k].posts = 1
         /\ calls[k].pc \in {"fallback", "resolved"}
         /\ "Failed to queue webhook" \in calls[k].log
         /\ \A i \in 1..Len(pq.queue) : pq.queue[i] # k
         /\ calls[k].http = "failed" =>
              (calls[k].pc = "resolved" /\ "webhookError" \in calls[k].log)

C10_Witness ==
  \E k \in Calls :
    /\ calls[k].route = "fallback"
    /\ calls[k].pc = "resolved"
    /\ calls[k].http = "failed"
    /\ calls[k].posts = 1

\* C11 (as claimed): the promise of QueuedWebhookSender.send resolves on
\* acceptance, not on completion of the HTTP call: once a payload's POST has
\* been in flight for some time, the promise send returned has resolved.
C11_Claim ==
  \A k \in Calls :
    (calls[k].pc = "running" /\ now > calls[k].start)
      => calls[k].promise = "resolved"

\* C11 (amended): the promise of QueuedWebhookSender.send is pending while
\* the payload's task waits in the queue and while its POST (queued or
\* fallback) is in flight; it has resolved exactly when that POST has
\* settled.
C11_SendResolvesAfterPost ==
  \A k \in Calls :
    /\ calls[k].pc \in {"queued", "running", "fallback"}
         => calls[k].promise = "pending"
    /\ calls[k].promise = "resolved"
         <=> (calls[k].pc = "resolved" /\ calls[k].http \in HttpOutcomes)

C11_Witness ==
  \E k1, k2 \in Calls :
    /\ calls[k1].pc = "running" /\ now > calls[k1].start
    /\ calls[k1].promise = "pending"
    /\ calls[k2].pc = "queued" /\ calls[k2].promise = "pending"
    /\ \E k3 \in Calls : calls[k3].promise = "resolved"

\* C12: WebhookSender.send issues exactly one POST per call and never
\* raises: whether the POST succeeds, answers with a status >= 400, times
\* out, gets no response or fails in any other way, the call resolves, a
\* failure is logged (success logs nothing) and no second POST is made.
C12_OnePostNeverRaises ==
  \A k \in WCalls :
    /\ wsend[k].pc \in {"new", "posting", "resolved"}
    /\ wsend[k].posts = (IF wsend[k].pc = "new" THEN 0 ELSE 1)
    /\ wsend[k].pc = "resolved" =>
         LET o == wsend[k].settle
             success == o.kind = "response" /\ o.status < 400
         IN  /\ o \in PostOutcomes
             /\ success <=> wsend[k].log = {}
             /\ ~success => Cardinality(wsend[k].log) = 1

C12_Witness ==
  \E k1, k2 \in WCalls :
    /\ wsend[k1].pc = "resolved" /\ wsend[k1].posts = 1
    /\ wsend[k1].settle.kind = "error" /\ ~wsend[k1].settle.isAxiosError
    /\ wsend[k2].pc = "resolved" /\ wsend[k2].posts = 1
    /\ wsend[k2].settle.code = "ECONNABORTED"

\* C13: every payload built, and so every payload handed to a sender, has
\* an executionPlan: the plan retrieved (for the service's dialect) when
\* captureExecutionPlan returned a result, and otherwise (no plan service
\* because capture is disabled or no data-source options were given, a
\* dialect that is not SQL, retrieval returning null or rejecting) the
\* default with databaseProvider "unknown", TEXT format and empty content.
C13_ExecutionPlanAlwaysPresent ==
  \A e \in Events :
    (ev[e].queryId # 0 \/ ev[e].sends > 0) =>
      /\ ev[e].queryId # 0
      /\ ev[e].executionPlan # NoExecutionPlan
      /\ IF ev[e].plan = "result"
           THEN /\ ev[e].executionPlan.databaseProvider = executionPlanService
                /\ isSqlDatabase(executionPlanService)
                /\ ev[e].executionPlan.content = "explain"
           ELSE /\ ev[e].executionPlan.databaseProvider = "unknown"
                /\ ev[e].executionPlan.contentType = "text/plain"
                /\ ev[e].executionPlan.fileExtension = ".txt"
                /\ ev[e].executionPlan.description = "TEXT"
                /\ ev[e].executionPlan.content = ""

C13_Witness ==
  \E e1, e2 \in Events :
    /\ ev[e1].sends = 1 /\ ev[e1].plan = "result"
    /\ ev[e1].executionPlan.databaseProvider = "postgres"
    /\ ev[e2].sends = 1 /\ ev[e2].plan \in {"null", "rejected"}
    /\ ev[e2].executionPlan = defaultExecutionPlan

\* The plan retrieval of event e has failed: captureExecutionPlan returned
\* null or rejected.
PlanFailed(e) ==
  ev[e].plan \in {"null", "rejected"}

\* C14: a failed plan retrieval never blocks or fails the report: for every
\* activated event whose retrieval returned nothing or rejected, the payload
\* is eventually built with the default execution plan and the sender's
\* send is eventually invoked for that event.
C14_FailedPlanStillReports ==
  \A e \in Events :
    (Activated(e) /\ PlanFailed(e))
      ~> (/\ ev[e].sends = 1
          /\ ev[e].queryId # 0
          /\ ev[e].executionPlan = defaultExecutionPlan)

C14_Witness ==
  \E e \in Events :
    /\ Activated(e)
    /\ ev[e].plan = "rejected"
    /\ ev[e].sends = 1
    /\ ev[e].executionPlan = defaultExecutionPlan

\* C15 (as claimed): captureExecutionPlan never rejects, whichever step
\* fails, the release of the query runner included.
C15_Claim ==
  \A c \in Captures : caps[c].pc # "rejected"

\* The dialects captureExecutionPlan treats as SQL.
RecognizedSqlDialects ==
  {"mysql", "postgres", "mariadb", "sqlite", "mssql", "oracle"}

\* C16: on a service whose dialect is not a recognized SQL dialect, every
\* captureExecutionPlan call returns null without suspending, and over any
\* sequence of calls no DataSource is created or initialized, no handle is
\* cached and no query runner is created.
C16_NonSqlOpensNothing ==
  executionPlanService \notin RecognizedSqlDialects =>
    /\ dataSources = <<>>
    /\ analysisDataSource = 0
    /\ \A c \in Captures :
         /\ caps[c].pc \in {"new", "resolved"}
         /\ caps[c].runner = "none"
         /\ caps[c].created = 0
         /\ caps[c].pc = "resolved" => caps[c].result = "null"
    /\ \A k \in Cleanups : cleanups[k].destroyCalls = 0

C16_Witness ==
  /\ executionPlanService = "mongodb"
  /\ \A c \in Captures : caps[c].pc = "resolved" /\ caps[c].result = "null"
  /\ \E k \in Cleanups : cleanups[k].pc = "resolved"

\* The DataSources that are initialized or being initialized.
LiveDataSources ==
  {d \in 1..Len(dataSources) :
     dataSources[d].state \in {"initializing", "initialized"}}

\* C17 (as claimed): under any interleaving of captureExecutionPlan calls
\* at most one DataSource exists that is initialized or being initialized.
C17_Claim ==
  Cardinality(LiveDataSources) <= 1

\* C18: a cleanup() that starts with an initialized cached DataSource calls
\* destroy on it once, and when destroy has succeeded the DataSource is
\* destroyed (once) and the cached handle is null; a cleanup() that starts
\* with no cached DataSource or one that is not initialized (never opened,
\* or already torn down and no capture since) calls no destroy, resolves and
\* leaves the service as it was; the cached handle never refers to a
\* destroyed DataSource.
C18_TeardownIdempotent ==
  [][\A k \in Cleanups :
       /\ (cleanups[k].pc = "new" /\ cleanups'[k].pc # "new") =>
            IF isInitialized(dataSources, analysisDataSource)
              THEN /\ cleanups'[k].pc = "awaitDestroy"
                   /\ cleanups'[k].target = analysisDataSource
                   /\ cleanups'[k].destroyCalls = 1
              ELSE /\ cleanups'[k].pc = "resolved"
                   /\ cleanups'[k].destroyCalls = 0
                   /\ UNCHANGED <<analysisDataSource, dataSources, caps>>
       /\ (cleanups[k].pc = "awaitDestroy" /\ cleanups'[k].pc = "resolved") =>
            /\ analysisDataSource' = 0
            /\ dataSources'[cleanups[k].target].state = "destroyed"
            /\ dataSources'[cleanups[k].target].destroyed = 1
       /\ analysisDataSource' # 0 =>
            dataSources'[analysisDataSource'].state # "destroyed"
       /\ cleanups'[k].pc # "rejected" => cleanups'[k].destroyCalls <= 1
    ]_vars

C18_Witness ==
  \E k1, k2 \in Cleanups :
    /\ k1 < k2
    /\ cleanups[k1].pc = "resolved" /\ cleanups[k1].target # 0
    /\ dataSources[cleanups[k1].target].destroyed = 1
    /\ cleanups[k2].pc = "resolved" /\ cleanups[k2].destroyCalls = 0
    /\ analysisDataSource = 0

\* C19: for a parameter array of length n, sanitizeParameters does not
\* throw and returns exactly n entries whose keys are param_0 ..
\* param_{n-1} in input order, null and undefined entries included; for
\* absent, null or non-array parameters it returns no entry.
C19_SanitizeKeysMatchPositions ==
  "sanitizeParameters" \in enriched.done =>
    LET n == IF parameters.kind = "array" THEN Len(parameters.items) ELSE 0
        out == enriched.safeParameters
    IN  /\ ~enriched.threw
        /\ Len(out) = n
        /\ \A i \in 1..n :
             /\ out[i].key.prefix = "param_"
             /\ out[i].key.index = i - 1
             /\ parameters.items[i] \in {"null", "undefined"}
                  => out[i].value = parameters.items[i]

C19_Witness ==
  /\ "sanitizeParameters" \in enriched.done
  /\ parameters.kind = "array"
  /\ Len(parameters.items) = 2
  /\ parameters.items[1] = "null"
  /\ parameters.items[2] = "invalidDate"
  /\ Len(enriched.safeParameters) = 2

\* C20: truncateQuery returns a query of at most maxQuery characters
\* unchanged; for a longer query it returns the first maxQuery characters
\* followed by "... [TRUNCATED]", maxQuery + 15 characters in all.
C20_TruncateQuery ==
  "truncateQuery" \in enriched.done =>
    LET out == enriched.truncatedQuery
        m == config.maxQuery
    IN  IF Len(query) <= m
          THEN out = query
          ELSE /\ Len(out) = m + 15
               /\ \A i \in 1..m : out[i] = query[i]
               /\ SubSeq(out, m + 1, m + 15) =
                    <<".", ".", ".", " ", "[", "T", "R", "U", "N", "C", "A",
                      "T", "E", "D", "]">>

C20_Witness ==
  /\ "truncateQuery" \in enriched.done
  /\ config.maxQuery = 2
  /\ Len(query) = 3
  /\ Len(enriched.truncatedQuery) = 17

\* The constraints the configuration declares on its fields.
SatisfiesConstraints(c) ==
  /\ c.apiEndpoint # "" /\ c.apiKey # "" /\ c.projectId # ""
  /\ \A n \in {c.thresholdMs, c.maxStack, c.maxQuery, c.timeoutMs} :
       n # NaN /\ n > 0
  /\ c.queueConcurrency # NaN /\ c.queueConcurrency >= 1
  /\ c.queueIntervalCap # NaN /\ c.queueIntervalCap >= 0
  /\ c.queueIntervalInMs # NaN /\ c.queueIntervalInMs >= 0

\* C21: validate() throws for every configuration that violates a declared
\* constraint (a missing endpoint, key or project; a thresholdMs, maxStack,
\* maxQuery or timeoutMs that is not a number above 0; a queueConcurrency
\* below 1; a negative queueIntervalCap or queueIntervalInMs) and accepts
\* every configuration that satisfies them all.
C21_Claim ==
  validation # "pending" =>
    (validation = "ok" <=> SatisfiesConstraints(config))

\* C22: a QueryAnalyzerConfig instance passed as the constructor's argument
\* is the configuration the logger uses.
C22_Claim ==
  (ctor # "pending" /\ ctorArg.kind = "instance") =>
    config = ctorArg.value

\* C23: every logQuerySlow call writes the detection line, also when
\* reporting is disabled for the environment and when time < thresholdMs.
C23_DetectionAlwaysLogged ==
  \A e \in Events : ev[e].pc # "new" => "detected" \in ev[e].log

\* Two calls were made, one with reporting disabled or below the threshold
\* and ignored, and its detection line is there.
C23_Witness ==
  \E e \in Events :
    /\ ev[e].pc = "ignored"
    /\ ~isEnabled(config, nodeEnv) \/ ev[e].time < config.thresholdMs
    /\ "detected" \in ev[e].log

\* The commands issued on capture c's query runner contain a SET
\* SHOWPLAN_XML OFF after the SET SHOWPLAN_XML ON.
OffAfterOn(c) ==
  \E i, j \in DOMAIN caps[c].commands :
    /\ i < j
    /\ caps[c].commands[i] = "SET SHOWPLAN_XML ON"
    /\ caps[c].commands[j] = "SET SHOWPLAN_XML OFF"

\* queryRunner.release() has been called for capture c.
ReleaseCalled(c) ==
  caps[c].runner # "none" /\ caps[c].pc \in {"awaitRelease", "resolved",
                                             "rejected"}

\* C24: on the mssql path, once SET SHOWPLAN_XML ON was issued, SET
\* SHOWPLAN_XML OFF is issued on the same query runner before the runner is
\* released, whether the query succeeded or failed.
C24_ShowplanOffBeforeRelease ==
  \A c \in Captures :
    (caps[c].commands # <<>> /\ caps[c].commands[1] = "SET SHOWPLAN_XML ON"
       /\ ReleaseCalled(c))
      => OffAfterOn(c)

\* One capture whose query succeeded and one whose query failed, both with
\* OFF issued and the runner released.
C24_Witness ==
  \E c1, c2 \in Captures :
    /\ caps[c1].mssqlQuery = "ok" /\ caps[c2].mssqlQuery = "failed"
    /\ \A c \in {c1, c2} :
         caps[c].runner = "released" /\ OffAfterOn(c)

\* C25: on the mssql path a failure of SET SHOWPLAN_XML OFF does not change
\* the outcome: when the query under SHOWPLAN_XML succeeded the plan result
\* is returned, and when it failed the error reported is the query's.
C25_Claim ==
  \A c \in Captures :
    ReleaseCalled(c) =>
      /\ caps[c].mssqlQuery = "ok" => caps[c].result = "result"
      /\ caps[c].mssqlQuery = "failed" => caps[c].mssqlError = "${query}"

\* The dialects captureExecutionPlan has a command of their own for.
NamedDialects == {"mysql", "mariadb", "postgres", "sqlite", "oracle", "mssql"}

\* C26: for a SQL dialect outside the named ones, a captureExecutionPlan
\* call in which nothing fails issues 'EXPLAIN <query>' and returns a result
\* tagged with the dialect and the TEXT format.
C26_Claim ==
  \A c \in Captures :
    (executionPlanService = "cockroachdb" /\ caps[c].pc = "resolved"
       /\ caps[c].log = {})
      => /\ caps[c].commands = <<"EXPLAIN ${query}">>
         /\ caps[c].result = "result"
         /\ caps[c].returned.databaseProvider = "cockroachdb"
         /\ caps[c].returned.description = "TEXT"

\* The commands and the format a successful call has per named dialect.
PlanTable(dbType) ==
  CASE dbType \in {"mysql", "mariadb"} ->
         [commands |-> <<"EXPLAIN FORMAT=JSON ${query}">>, format |-> "JSON"]
    [] dbType = "postgres" ->
         [commands |-> <<"EXPLAIN (FORMAT JSON) ${query}">>, format |-> "JSON"]
    [] dbType = "sqlite" ->
         [commands |-> <<"EXPLAIN QUERY PLAN ${query}">>, format |-> "TEXT"]
    [] dbType = "oracle" ->
         [commands |-> <<"EXPLAIN PLAN FOR ${query}">>, format |-> "TEXT"]
    [] dbType = "mssql" ->
         [commands |-> <<"SET SHOWPLAN_XML ON", "${query}",
                         "SET SHOWPLAN_XML OFF">>, format |-> "XML"]

\* C27: a successful captureExecutionPlan on a named dialect has issued
\* exactly the dialect's commands and returns the dialect's format, with
\* databaseProvider the dialect.
C27_DialectCommandAndFormat ==
  \A c \in Captures :
    (executionPlanService \in NamedDialects /\ caps[c].pc = "resolved"
       /\ caps[c].result = "result")
      => /\ caps[c].commands = PlanTable(executionPlanService).commands
         /\ caps[c].returned.description =
              PlanTable(executionPlanService).format
         /\ caps[c].returned.databaseProvider = executionPlanService

\* Two successful calls on a dialect with a single command (here oracle
\* stands for them; the run on mssql is C24's).
C27_Witness ==
  /\ executionPlanService = "oracle"
  /\ \A c \in Captures :
       caps[c].pc = "resolved" /\ caps[c].result = "result"

\* The value sanitizeParameters is to store for a parameter of each kind:
\* the parameter itself, its ISO-8601 string, or a placeholder.
Sanitized(kind) ==
  CASE kind \in {"null", "undefined", "string", "number", "boolean"} -> kind
    [] kind = "date" -> "toISOString"
    [] kind = "object" -> "[Object]"
    [] kind = "invalidDate" -> "[Unparseable]"
    [] kind = "function" -> "String(param)"

\* C28 as stated: the classification, and every output value is the
\* parameter itself (null, undefined, string, number, boolean), an ISO-8601
\* string, '[Object]' or '[Unparseable]'.
C28_Claim ==
  ("sanitizeParameters" \in enriched.done /\ parameters.kind = "array") =>
    \A i \in 1..Len(enriched.safeParameters) :
      enriched.safeParameters[i].value \in
        {"null", "undefined", "string", "number", "boolean", "toISOString",
         "[Object]", "[Unparseable]"}

\* C28, amended: the classification of the claim, and a value that is
\* neither a primitive of those types nor an object (a function, a symbol,
\* a bigint) is stored as its string conversion.
C28_SanitizeClassification ==
  ("sanitizeParameters" \in enriched.done /\ parameters.kind = "array") =>
    /\ Len(enriched.safeParameters) = Len(parameters.items)
    /\ \A i \in 1..Len(parameters.items) :
         enriched.safeParameters[i].value = Sanitized(parameters.items[i])

\* A date that cannot be rendered and a function were sanitized.
C28_Witness ==
  /\ "sanitizeParameters" \in enriched.done
  /\ parameters.kind = "array"
  /\ parameters.items = <<"invalidDate", "function">>
  /\ enriched.safeParameters[1].value = "[Unparseable]"
  /\ enriched.safeParameters[2].value = "String(param)"

\* The payload of event a was built before that of event b.  queryId is
\* drawn when createReportPayload builds the payload object, so the
\* identifiers number the payloads in the order their enrichment completed.
EnrichedBefore(a, b) ==
  /\ ev[a].queryId # 0
  /\ ev[b].queryId # 0
  /\ ev[a].queryId < ev[b].queryId

\* C29: when the enrichment of event a completed before that of event b
\* and send has been invoked for b, send was invoked for a before, whatever
\* the order of the logQuerySlow calls.
C29_SendsInEnrichmentOrder ==
  \A a, b \in Events :
    (EnrichedBefore(a, b) /\ ev[b].sends > 0)
      => /\ ev[a].sends > 0
         /\ ev[a].sendOrder < ev[b].sendOrder

\* The later logQuerySlow call's plan retrieval settled first: its payload
\* was built first and was handed to the sender first.
C29_Witness ==
  \E a, b \in Events :
    /\ a < b
    /\ EnrichedBefore(b, a)
    /\ ev[a].plan \in {"result", "null", "rejected"}
    /\ ev[a].sends > 0 /\ ev[b].sends > 0
    /\ ev[b].sendOrder < ev[a].sendOrder

\* The failure messages the outcome of a POST calls for, by priority: a
\* timeout; a response with status >= 400; a request without response; any
\* other failure (generic or unexpected); none for a response below 400.
FailureMessages(o) ==
  IF o.kind = "response"
    THEN IF o.status >= 400 THEN {{"failed with status"}} ELSE {{}}
  ELSE IF o.code = "ECONNABORTED" THEN {{"timeout"}}
  ELSE IF o.status >= 400 THEN {{"failed with status"}}
  ELSE IF o.request THEN {{"no response received"}}
  ELSE {{"failed"}, {"unexpected error"}}

\* C30: a WebhookSender.send that failed has logged exactly one failure
\* message, of the class its outcome calls for (a timeout is logged as a
\* timeout although the error also carries the request); a response below
\* 400 logs none.
C30_OneFailureMessagePerClass ==
  \A k \in WCalls :
    wsend[k].pc = "resolved" =>
      /\ wsend[k].log \in FailureMessages(wsend[k].settle)
      /\ Cardinality(wsend[k].log) <= 1

\* A send that timed out, its error carrying the request, logged the timeout
\* message; another got a response with status 500 and logged the status.
C30_Witness ==
  \E k1, k2 \in WCalls :
    /\ wsend[k1].pc = "resolved"
    /\ wsend[k1].settle.code = "ECONNABORTED" /\ wsend[k1].settle.request
    /\ wsend[k1].log = {"timeout"}
    /\ wsend[k2].pc = "resolved"
    /\ wsend[k2].settle.status = 500
    /\ wsend[k2].log = {"failed with status"}

\* C31: the stackTrace is empty when captureStack is false or no stack is
\* obtainable; otherwise its entries are lines of the stack in the stack's
\* order, at most maxStack of them, none a frame of the analyzer and none a
\* frame of the ORM.
C31_Claim ==
  stackTrace.done =>
    LET fr == stackTrace.frames
    IN  IF ~config.captureStack \/ ~errorStack.obtainable THEN fr = <<>>
        ELSE /\ Len(fr) <= config.maxStack
             /\ \A j \in 1..Len(fr) :
                  /\ fr[j].line \in 1..Len(errorStack.lines)
                  /\ fr[j].frame = errorStack.lines[fr[j].line]
                  /\ fr[j].frame \notin {"analyzer", "orm", "ormElsewhere"}
             /\ \A j, k \in 1..Len(fr) : j < k => fr[j].line < fr[k].line

\* C32: for every QueuedWebhookSender.send call the transport's send is
\* invoked at most once, by the queued task or by the fallback, never by
\* both: the fallback is not made for a payload whose task the queue has
\* started.
C32_AtMostOnceThroughQueue ==
  \A k \in Calls :
    /\ calls[k].posts <= 1
    /\ calls[k].route = "fallback" => calls[k].start = -1
    /\ calls[k].start # -1 => calls[k].route = "queue"

\* A queued task whose POST failed has settled without a fallback, and
\* another call went through the fallback alone.
C32_Witness ==
  \E k1, k2 \in Calls :
    /\ calls[k1].route = "queue" /\ calls[k1].pc = "resolved"
    /\ calls[k1].http = "failed" /\ calls[k1].posts = 1
    /\ calls[k2].route = "fallback" /\ calls[k2].pc = "resolved"
    /\ calls[k2].posts = 1

\* C33: a captureExecutionPlan call that created a query runner calls its
\* release() exactly once before it settles, whether the plan command
\* succeeded, the plan command failed or connect failed; a call that
\* created no runner never calls release().
C33_RunnerReleasedOnce ==
  \A c \in Captures :
    /\ caps[c].releases <= 1
    /\ caps[c].runner = "none" => caps[c].releases = 0
    /\ (caps[c].runner # "none" /\ caps[c].pc \in {"resolved", "rejected"})
         => caps[c].releases = 1

\* One call whose plan command succeeded and one whose connect failed have
\* settled, each after one release().
C33_Witness ==
  \E c1, c2 \in Captures :
    /\ caps[c1].pc = "resolved" /\ caps[c1].result = "result"
    /\ caps[c1].releases = 1
    /\ caps[c2].pc = "resolved" /\ caps[c2].result = "null"
    /\ caps[c2].runner # "none" /\ caps[c2].commands = <<>>
    /\ caps[c2].releases = 1

\* A call whose DataSource failed to initialize has settled without a
\* release().
C33_NoRunnerWitness ==
  \E c \in Captures :
    /\ caps[c].pc = "resolved" /\ caps[c].runner = "none"
    /\ caps[c].releases = 0
    /\ caps[c].created # 0

\* C34: when cleanup() was called while the first-use initialize() of the
\* side connection was pending, then once that cleanup() and every
\* captureExecutionPlan call made before it have settled, and no capture
\* was made after it, no DataSource is initialized or being initialized.
C34_Claim ==
  \A k \in Cleanups :
    ( /\ cleanups[k].duringInit # 0
      /\ cleanups[k].pc \in {"resolved", "rejected"}
      /\ Cardinality({c \in Captures : caps[c].pc # "new"})
           = cleanups[k].duringInit
      /\ \A c \in Captures : caps[c].pc \in {"new", "resolved", "rejected"} )
    => LiveDataSources = {}

\* C35: every payload handed to a sender with environment "production" was
\* built by a logger whose enableProd is true, and every payload with
\* environment "development" by one whose enableDev is true.
C35_Claim ==
  \A e \in Events :
    ev[e].sends > 0 =>
      /\ ev[e].environment = "production" => config.enableProd
      /\ ev[e].environment = "development" => config.enableDev

\* The commands that begin with EXPLAIN.
ExplainCommands ==
  {"EXPLAIN FORMAT=JSON ${query}", "EXPLAIN (FORMAT JSON) ${query}",
   "EXPLAIN QUERY PLAN ${query}", "EXPLAIN PLAN FOR ${query}",
   "EXPLAIN ${query}"}

\* C36: the side connection is never given the original statement to
\* execute: on a dialect other than mssql a call issues at most one command
\* and it begins with EXPLAIN; on mssql the query text is issued only in the
\* step in which SET SHOWPLAN_XML ON has succeeded, as the second command,
\* and never when SET SHOWPLAN_XML ON failed.
C36_NeverRunsOriginal ==
  [][\A c \in Captures :
       /\ executionPlanService # "mssql" =>
            /\ Len(caps'[c].commands) <= 1
            /\ \A i \in 1..Len(caps'[c].commands) :
                 caps'[c].commands[i] \in ExplainCommands
       /\ \A i \in 1..Len(caps'[c].commands) :
            (caps'[c].commands[i] = "${query}"
               /\ (i > Len(caps[c].commands)
                     \/ caps[c].commands[i] # "${query}")) =>
              /\ i = 2
              /\ caps[c].commands = <<"SET SHOWPLAN_XML ON">>
              /\ caps[c].pc = "awaitShowplanOn"
              /\ caps'[c].showplan = "on"
              /\ caps'[c].mssqlError = "none"
    ]_vars

\* On mssql one call issued the query after SET SHOWPLAN_XML ON succeeded,
\* and another, whose SET SHOWPLAN_XML ON failed, settled without issuing
\* it.
C36_Witness ==
  \E c1, c2 \in Captures :
    /\ executionPlanService = "mssql"
    /\ Len(caps[c1].commands) >= 2 /\ caps[c1].commands[2] = "${query}"
    /\ caps[c2].pc = "resolved"
    /\ caps[c2].commands = <<"SET SHOWPLAN_XML ON", "SET SHOWPLAN_XML OFF">>
    /\ caps[c2].mssqlError \in {"SET SHOWPLAN_XML ON", "SET SHOWPLAN_XML OFF"}

====
